---- MODULE Spec2Model ----
(***************************************************************************)
(* Model of the synerity-ai/charts export pipeline (ExportManager):        *)
(* exportPNG / exportSVG / exportPDF as promise-returning operations whose *)
(* event handlers (image load, image error, encode callback, await         *)
(* continuation) run one at a time on the event loop, and exportCSV as a   *)
(* pure function over the data records.                                    *)
(***************************************************************************)
EXTENDS Integers, Sequences, FiniteSets, TLC

VARIABLES
    svg,        \* the <svg> root found by container.querySelector('svg'), or NoSvg
    jsPDF,      \* TRUE iff typeof window.jsPDF !== 'undefined'
    ctxOk,      \* TRUE iff canvas.getContext('2d') returns a context
    liveUrls,   \* object URLs created by URL.createObjectURL and not yet revoked
    nextUrl,    \* the next object URL the browser hands out
    calls,      \* one record per export call issued on the manager
    csvData,    \* the data array handed to exportCSV
    csvOut,     \* the text exportCSV returned, or NotRun
    downloads,  \* the files handed to downloadFile, in order
    jsonOut,    \* the text exportJSON returned, or NotRun
    fileArg,    \* the filename arguments of the exportCSV and exportJSON calls
    plot,       \* the ScatterPlot under analysis: options, data, trend line, clusters
    page,       \* the container elements of the page and their child nodes
    chart,      \* the chart a constructor call made, and what its calls reported
    stage       \* two chart instances on one container: the nodes each one made

vars == <<svg, jsPDF, ctxOk, liveUrls, nextUrl, calls, csvData, csvOut, downloads,
          jsonOut, fileArg, plot, page, chart, stage>>

exportVars == <<svg, jsPDF, ctxOk, liveUrls, nextUrl, calls>>

csvVars == <<csvData, csvOut, downloads, jsonOut, fileArg>>

chartVars == <<plot, page, chart, stage>>

(***************************************************************************)
(* Bounds of the model.                                                    *)
(***************************************************************************)
\* number of export calls that may be in flight on one container
NumCalls == 2

\* significant bits of the binary floating-point numbers of the model
Prec == 3

\* largest width / height (target and source) tried for the PNG placement
MaxDim == 13

\* largest number of records in the data handed to exportCSV
MaxRows == 2

\* the longest scatter data set a ScatterPlot is constructed with
MaxPoints == 2

\* the calls made on the charts that share a container
MaxOps == 4

(***************************************************************************)
(* Binary floating-point arithmetic (JavaScript numbers), round to nearest *)
(* with ties to even, on Prec significant bits.  A number is a reduced     *)
(* fraction <<n, d>> with d > 0.                                           *)
(***************************************************************************)
RECURSIVE GCD(_, _)
GCD(a, b) == IF b = 0 THEN a ELSE GCD(b, a % b)

Abs(n) == IF n < 0 THEN -n ELSE n

RECURSIVE Pow2(_)
Pow2(k) == IF k <= 0 THEN 1 ELSE 2 * Pow2(k - 1)

Reduce(x) ==
    LET g == GCD(Abs(x[1]), x[2])
    IN  IF g = 0 THEN <<0, 1>> ELSE <<x[1] \div g, x[2] \div g>>

Num(n) == <<n, 1>>

RLeq(x, y) == x[1] * y[2] <= y[1] * x[2]

RLess(x, y) == x[1] * y[2] < y[1] * x[2]

RNeg(x) == <<-x[1], x[2]>>

RAbs(x) == <<Abs(x[1]), x[2]>>

\* n/d rounded to the nearest integer, ties to even (n >= 0, d > 0)
RoundHalfEven(n, d) ==
    LET q == n \div d
        r == n % d
    IN  IF 2 * r > d \/ (2 * r = d /\ q % 2 = 1) THEN q + 1 ELSE q

RECURSIVE FlPos(_, _, _)
FlPos(n, d, e) ==
    IF n >= d * Pow2(Prec) THEN FlPos(n, 2 * d, e + 1)
    ELSE IF n < d * Pow2(Prec - 1) THEN FlPos(2 * n, d, e - 1)
    ELSE LET q == RoundHalfEven(n, d)
         IN  IF e >= 0 THEN <<q * Pow2(e), 1>> ELSE Reduce(<<q, Pow2(-e)>>)

\* the floating-point number nearest to the fraction x
Fl(x) ==
    IF x[1] = 0 THEN <<0, 1>>
    ELSE IF x[1] < 0 THEN RNeg(FlPos(-x[1], x[2], 0))
    ELSE FlPos(x[1], x[2], 0)

Representable(n) == Fl(Num(n)) = Num(n)

FDiv(x, y) == Fl(<<x[1] * y[2], x[2] * y[1]>>)

FMul(x, y) == Fl(<<x[1] * y[1], x[2] * y[2]>>)

FSub(x, y) == Fl(<<x[1] * y[2] - y[1] * x[2], x[2] * y[2]>>)

FMin(x, y) == IF RLeq(x, y) THEN x ELSE y

\* the values that are not finite: 0/0, 1/0 and -1/0; no operand of this
\* model is a negative zero
NaN == <<0, 0>>

PosInf == <<1, 0>>

NegInf == <<-1, 0>>

Zero == <<0, 1>>

IsFinite(x) == x[2] # 0

Sign(x) == IF x[1] > 0 THEN 1 ELSE IF x[1] < 0 THEN -1 ELSE 0

XNeg(x) == <<-x[1], x[2]>>

FAdd(x, y) == FSub(x, RNeg(y))

\* x + y
XAdd(x, y) ==
    IF x = NaN \/ y = NaN THEN NaN
    ELSE IF ~IsFinite(x) /\ ~IsFinite(y) THEN (IF x = y THEN x ELSE NaN)
    ELSE IF ~IsFinite(x) THEN x
    ELSE IF ~IsFinite(y) THEN y
    ELSE FAdd(x, y)

\* x - y
XSub(x, y) == XAdd(x, XNeg(y))

\* x * y
XMul(x, y) ==
    IF x = NaN \/ y = NaN THEN NaN
    ELSE IF IsFinite(x) /\ IsFinite(y) THEN FMul(x, y)
    ELSE IF Sign(x) * Sign(y) = 0 THEN NaN
    ELSE <<Sign(x) * Sign(y), 0>>

\* x / y
XDiv(x, y) ==
    IF x = NaN \/ y = NaN THEN NaN
    ELSE IF ~IsFinite(x)
         THEN (IF ~IsFinite(y) THEN NaN
               ELSE <<Sign(x) * (IF y[1] < 0 THEN -1 ELSE 1), 0>>)
    ELSE IF ~IsFinite(y) THEN Zero
    ELSE IF y[1] = 0 THEN (IF x[1] = 0 THEN NaN ELSE <<Sign(x), 0>>)
    ELSE IF y[1] < 0 THEN FDiv(RNeg(x), RNeg(y))
    ELSE FDiv(x, y)

\* Math.min(x, y)
XMin(x, y) ==
    IF x = NaN \/ y = NaN THEN NaN
    ELSE IF x = NegInf \/ y = PosInf THEN x
    ELSE IF y = NegInf \/ x = PosInf THEN y
    ELSE FMin(x, y)

(***************************************************************************)
(* The container's DOM and the export calls.                               *)
(***************************************************************************)
\* container.querySelector('svg') finds nothing
NoSvg == [present |-> FALSE, children |-> <<>>, rect |-> <<0, 0>>]

NoUrl == 0

NoPlace ==
    [drawn |-> FALSE, scale |-> <<0, 1>>, scaledWidth |-> <<0, 1>>,
     scaledHeight |-> <<0, 1>>, offsetX |-> <<0, 1>>, offsetY |-> <<0, 1>>]

NoMeta == [title |-> "unset", author |-> "unset", subject |-> "unset", creator |-> "unset"]

NoOut == <<>>

Omitted == "omitted"

ErrNoContext == "Canvas context not available"

ErrNoSvg == "No SVG element found in container"

ErrNoBlob == "Failed to create PNG blob"

ErrSvgLoad == "Failed to load SVG as image"

ErrNoJsPDF == "jsPDF library not found. Please include jsPDF in your project."

ErrPngLoad == "Failed to load PNG image for PDF"

ErrAssembly == "error thrown by jsPDF"

NoErr == "no-error"

\* the stylesheet block of getComputedStyles, as one <style> child
StyleElement == "style"

\* an <svg> root as the charts render it: a chart group, and its bounding box
RenderedSvg(w, h) == [present |-> TRUE, children |-> <<"g">>, rect |-> <<w, h>>]

Calls == 1 .. NumCalls

\* a call slot on which no export has been started yet; startRect is the
\* bounding box the <svg> had when exportPNG serialized it
IdleCall ==
    [kind |-> "none", width |-> 0, height |-> 0, includeStyles |-> Omitted,
     title |-> Omitted, author |-> Omitted, subject |-> Omitted,
     queried |-> FALSE,
     ppc |-> "none", pstat |-> "none", perr |-> NoErr, svgUrl |-> NoUrl,
     place |-> NoPlace, startRect |-> <<0, 0>>,
     opc |-> "none", ostat |-> "none", oerr |-> NoErr, pngUrl |-> NoUrl,
     meta |-> NoMeta, out |-> NoOut,
     settles |-> 0, created |-> {}, revoked |-> {},
     loaded |-> "n/a", threw |-> "n/a", blobOk |-> "n/a",
     pdfLoaded |-> "n/a", asmThrew |-> "n/a"]

\* XMLSerializer().serializeToString(el)
Serialize(el) == <<"<svg>">> \o el.children \o <<"</svg>">>

(***************************************************************************)
(* exportPNG                                                               *)
(***************************************************************************)
FMax(x, y) == IF RLeq(x, y) THEN y ELSE x

\* Placement scaling the image to cover the canvas instead of fitting it
Placement_cover(width, height, rect) ==
    LET scaleX == FDiv(Num(width), Num(rect[1]))
        scaleY == FDiv(Num(height), Num(rect[2]))
        scale == FMax(scaleX, scaleY)
        scaledWidth == FMul(Num(rect[1]), scale)
        scaledHeight == FMul(Num(rect[2]), scale)
        offsetX == FDiv(FSub(Num(width), scaledWidth), Num(2))
        offsetY == FDiv(FSub(Num(height), scaledHeight), Num(2))
    IN  [drawn |-> TRUE, scale |-> scale, scaledWidth |-> scaledWidth,
         scaledHeight |-> scaledHeight, offsetX |-> offsetX, offsetY |-> offsetY]

\* img.onload of exportPNG: the rectangle handed to ctx.drawImage; the
\* bounding box of an <svg> that is not in the document is 0 x 0
Placement(width, height, rect) ==
    LET scaleX == XDiv(Num(width), Num(rect[1]))
        scaleY == XDiv(Num(height), Num(rect[2]))
        scale == XMin(scaleX, scaleY)
        scaledWidth == XMul(Num(rect[1]), scale)
        scaledHeight == XMul(Num(rect[2]), scale)
        offsetX == XDiv(XSub(Num(width), scaledWidth), Num(2))
        offsetY == XDiv(XSub(Num(height), scaledHeight), Num(2))
    IN  [drawn |-> TRUE, scale |-> scale, scaledWidth |-> scaledWidth, scaledHeight |-> scaledHeight,
         offsetX |-> offsetX, offsetY |-> offsetY]

\* the call's returned promise is the exportPNG promise itself for a PNG call
PngSettle(r, stat, err) ==
    IF r.kind = "png"
    THEN [r EXCEPT !.ppc = "done", !.pstat = stat, !.perr = err,
                   !.settles = @ + 1]
    ELSE [r EXCEPT !.ppc = "done", !.pstat = stat, !.perr = err]

\* the synchronous part of exportPNG, up to `img.src = svgUrl`
PngSync(r, width, height) ==
    LET r0 == [r EXCEPT !.width = width, !.height = height]
    IN  IF ~ctxOk
        THEN PngSettle(r0, "rejected", ErrNoContext)
        ELSE IF ~svg.present
        THEN PngSettle([r0 EXCEPT !.queried = TRUE], "rejected", ErrNoSvg)
        ELSE [r0 EXCEPT !.queried = TRUE, !.startRect = svg.rect,
                        !.svgUrl = nextUrl, !.created = @ \cup {nextUrl},
                        !.ppc = "loading", !.pstat = "pending"]

\* the object URLs a record holds that the previous record did not
NewUrls(old, new) == new.created \ old.created

ExportPNG(c, width, height) ==
    /\ calls[c].kind = "none"
    /\ LET r == PngSync([calls[c] EXCEPT !.kind = "png"], width, height)
       IN  /\ calls' = [calls EXCEPT ![c] = r]
           /\ liveUrls' = liveUrls \cup NewUrls(calls[c], r)
           /\ nextUrl' = nextUrl + Cardinality(NewUrls(calls[c], r))
    /\ UNCHANGED <<svg, jsPDF, ctxOk, csvVars, chartVars>>

\* the handlers revoking the URL created last on the page, not their own
PngRevokeTarget_last(r) == nextUrl - 1

\* URL.revokeObjectURL(svgUrl) in the handlers of exportPNG
PngRevokeTarget(r) == r.svgUrl

\* img.onload of exportPNG; threw: drawImage or toBlob raises an exception,
\* which ends the handler before the cleanup
PngImageLoad(c, threw) ==
    /\ calls[c].ppc = "loading"
    /\ LET r == calls[c]
           p == Placement(r.width, r.height, svg.rect)
       IN  IF threw
           THEN /\ calls' = [calls EXCEPT ![c] =
                       [r EXCEPT !.ppc = "aborted", !.place = p,
                                 !.loaded = "yes", !.threw = "yes"]]
                /\ UNCHANGED liveUrls
           ELSE /\ calls' = [calls EXCEPT ![c] =
                       [r EXCEPT !.ppc = "encoding", !.place = p,
                                 !.loaded = "yes", !.threw = "no",
                                 !.revoked = @ \cup {PngRevokeTarget(r)}]]
                /\ liveUrls' = liveUrls \ {PngRevokeTarget(r)}
    /\ UNCHANGED <<svg, jsPDF, ctxOk, nextUrl, csvVars, chartVars>>

\* img.onerror of exportPNG
PngImageError(c) ==
    /\ calls[c].ppc = "loading"
    /\ LET r == calls[c]
       IN  /\ calls' = [calls EXCEPT ![c] =
                  PngSettle([r EXCEPT !.loaded = "no",
                                      !.revoked = @ \cup {PngRevokeTarget(r)}],
                            "rejected", ErrSvgLoad)]
           /\ liveUrls' = liveUrls \ {PngRevokeTarget(r)}
    /\ UNCHANGED <<svg, jsPDF, ctxOk, nextUrl, csvVars, chartVars>>

\* the callback of canvas.toBlob
PngBlob(c, hasBlob) ==
    /\ calls[c].ppc = "encoding"
    /\ calls' = [calls EXCEPT ![c] =
           IF hasBlob
           THEN PngSettle([calls[c] EXCEPT !.blobOk = "yes"], "resolved", NoErr)
           ELSE PngSettle([calls[c] EXCEPT !.blobOk = "no"], "rejected", ErrNoBlob)]
    /\ UNCHANGED <<svg, jsPDF, ctxOk, liveUrls, nextUrl, csvVars, chartVars>>

(***************************************************************************)
(* exportSVG                                                               *)
(***************************************************************************)
\* const { includeStyles = true } = config
IncludeStyles(opt) == opt # "false"

\* exportSVG inserting the style block into the live element
SvgExport_live(el, opt) ==
    LET styled == IF IncludeStyles(opt)
                  THEN [el EXCEPT !.children = <<StyleElement>> \o @]
                  ELSE el
    IN  [live |-> styled, out |-> Serialize(styled)]

\* the body of exportSVG on the element el: the element as the call leaves
\* it, and the text it returns
SvgExport(el, opt) ==
    LET clonedSvg == el
        styled == IF IncludeStyles(opt)
                  THEN [clonedSvg EXCEPT !.children = <<StyleElement>> \o @]
                  ELSE clonedSvg
    IN  [live |-> el, out |-> Serialize(styled)]

\* exportSVG returning an empty text when the container holds no <svg>
SvgSync_silent(r, opt) ==
    IF ~svg.present
    THEN [r EXCEPT !.includeStyles = opt, !.queried = TRUE,
                   !.opc = "done", !.ostat = "resolved", !.settles = @ + 1]
    ELSE [r EXCEPT !.includeStyles = opt, !.queried = TRUE,
                   !.opc = "done", !.ostat = "resolved",
                   !.out = Serialize(svg), !.settles = @ + 1]

\* an async function without await: the promise is settled when it returns
SvgSync(r, opt) ==
    IF ~svg.present
    THEN [r EXCEPT !.includeStyles = opt, !.queried = TRUE,
                   !.opc = "done", !.ostat = "rejected", !.oerr = ErrNoSvg,
                   !.settles = @ + 1]
    ELSE [r EXCEPT !.includeStyles = opt, !.queried = TRUE,
                   !.opc = "done", !.ostat = "resolved",
                   !.out = SvgExport(svg, opt).out, !.settles = @ + 1]

ExportSVG(c, opt) ==
    /\ calls[c].kind = "none"
    /\ calls' = [calls EXCEPT ![c] = SvgSync([calls[c] EXCEPT !.kind = "svg"], opt)]
    /\ svg' = IF svg.present THEN SvgExport(svg, opt).live ELSE svg
    /\ UNCHANGED <<jsPDF, ctxOk, liveUrls, nextUrl, csvVars, chartVars>>

(***************************************************************************)
(* exportPDF                                                               *)
(***************************************************************************)
ProductName == "Synerity Charts"

\* the object handed to pdf.setProperties
PdfProperties(r) ==
    [title |-> IF r.title = Omitted THEN "Chart Export" ELSE r.title,
     author |-> IF r.author = Omitted THEN "Synerity Charts" ELSE r.author,
     subject |-> "Chart Export",
     creator |-> "Synerity Charts"]

\* exportPDF looking for jsPDF only after it has started exportPNG
PdfSync_late(r, width, height) ==
    LET started == PngSync(r, width, height)
    IN  IF ~jsPDF
        THEN [started EXCEPT !.opc = "done", !.ostat = "rejected",
                             !.oerr = ErrNoJsPDF, !.settles = @ + 1]
        ELSE [started EXCEPT !.opc = "await", !.ostat = "pending"]

\* the synchronous part of exportPDF, up to `await this.exportPNG(...)`
PdfSync(r, width, height) ==
    IF ~jsPDF
    THEN [r EXCEPT !.opc = "done", !.ostat = "rejected",
                   !.oerr = ErrNoJsPDF, !.settles = @ + 1]
    ELSE [PngSync(r, width, height) EXCEPT !.opc = "await", !.ostat = "pending"]

ExportPDF(c, width, height, title, author, subject) ==
    /\ calls[c].kind = "none"
    /\ LET r0 == [calls[c] EXCEPT !.kind = "pdf", !.title = title,
                                  !.author = author, !.subject = subject]
           r == PdfSync(r0, width, height)
       IN  /\ calls' = [calls EXCEPT ![c] = r]
           /\ liveUrls' = liveUrls \cup NewUrls(calls[c], r)
           /\ nextUrl' = nextUrl + Cardinality(NewUrls(calls[c], r))
    /\ UNCHANGED <<svg, jsPDF, ctxOk, csvVars, chartVars>>

\* the continuation of `await this.exportPNG(...)`, up to `img.src = pngUrl`
PdfResume(c) ==
    /\ calls[c].opc = "await"
    /\ calls[c].pstat \in {"resolved", "rejected"}
    /\ LET r == calls[c]
       IN  IF r.pstat = "rejected"
           THEN /\ calls' = [calls EXCEPT ![c] =
                       [r EXCEPT !.opc = "done", !.ostat = "rejected",
                                 !.oerr = r.perr, !.settles = @ + 1]]
                /\ UNCHANGED <<liveUrls, nextUrl>>
           ELSE /\ calls' = [calls EXCEPT ![c] =
                       [r EXCEPT !.opc = "loading", !.pngUrl = nextUrl,
                                 !.created = @ \cup {nextUrl}]]
                /\ liveUrls' = liveUrls \cup {nextUrl}
                /\ nextUrl' = nextUrl + 1
    /\ UNCHANGED <<svg, jsPDF, ctxOk, csvVars, chartVars>>

\* img.onload of exportPDF whose catch block forgets the cleanup
PdfAssemble_leak(r, asmThrew) ==
    IF asmThrew
    THEN [r EXCEPT !.opc = "done", !.pdfLoaded = "yes", !.asmThrew = "yes",
                   !.ostat = "rejected", !.oerr = ErrAssembly, !.settles = @ + 1]
    ELSE [r EXCEPT !.opc = "done", !.pdfLoaded = "yes", !.asmThrew = "no",
                   !.meta = [title |-> IF r.title = Omitted THEN "Chart Export" ELSE r.title,
                             author |-> IF r.author = Omitted THEN "Synerity Charts" ELSE r.author,
                             subject |-> "Chart Export", creator |-> "Synerity Charts"],
                   !.revoked = @ \cup {r.pngUrl},
                   !.ostat = "resolved", !.settles = @ + 1]

\* what the try/catch of img.onload of exportPDF leaves: asmThrew says that
\* the jsPDF calls raised an exception
PdfAssemble(r, asmThrew) ==
    IF asmThrew
    THEN [r EXCEPT !.opc = "done", !.pdfLoaded = "yes", !.asmThrew = "yes",
                   !.revoked = @ \cup {r.pngUrl},
                   !.ostat = "rejected", !.oerr = ErrAssembly, !.settles = @ + 1]
    ELSE [r EXCEPT !.opc = "done", !.pdfLoaded = "yes", !.asmThrew = "no",
                   !.meta = PdfProperties(r),
                   !.revoked = @ \cup {r.pngUrl},
                   !.ostat = "resolved", !.settles = @ + 1]

\* img.onload of exportPDF
PdfImageLoad(c, asmThrew) ==
    /\ calls[c].opc = "loading"
    /\ LET r == PdfAssemble(calls[c], asmThrew)
       IN  /\ calls' = [calls EXCEPT ![c] = r]
           /\ liveUrls' = liveUrls \ (r.revoked \ calls[c].revoked)
    /\ UNCHANGED <<svg, jsPDF, ctxOk, nextUrl, csvVars, chartVars>>

\* img.onerror of exportPDF
PdfImageError(c) ==
    /\ calls[c].opc = "loading"
    /\ LET r == calls[c]
       IN  /\ calls' = [calls EXCEPT ![c] =
                  [r EXCEPT !.opc = "done", !.pdfLoaded = "no",
                            !.revoked = @ \cup {r.pngUrl},
                            !.ostat = "rejected", !.oerr = ErrPngLoad,
                            !.settles = @ + 1]]
           /\ liveUrls' = liveUrls \ {r.pngUrl}
    /\ UNCHANGED <<svg, jsPDF, ctxOk, nextUrl, csvVars, chartVars>>

(***************************************************************************)
(* exportCSV.  A text is a sequence of tokens; "," and "\n" are the        *)
(* separators the code writes between the fields and after each line.      *)
(***************************************************************************)
NotRun == <<"not-run">>

\* the records tried as data: ChartData and ScatterData, with and without
\* their optional fields
CsvRecords ==
    { [label |-> "Q1", value |-> 120],
      [label |-> "Q2", value |-> 180, color |-> "#10B981"],
      [x |-> 0, y |-> 0],
      [x |-> 1, y |-> 1, label |-> "P1"],
      [x |-> 2, y |-> 2, color |-> "#3B82F6"],
      [x |-> 3, y |-> 4, label |-> "P2", color |-> "#F59E0B"],
      [label |-> "North, East", value |-> 7],
      [label |-> "two\nlines", value |-> 9] }

\* the text of a string, cut at the separators it contains
Chars(str) ==
    IF str = "North, East" THEN <<"North", ",", " East">>
    ELSE IF str = "two\nlines" THEN <<"two", "\n", "lines">>
    ELSE IF str = "" THEN <<>>
    ELSE <<str>>

RECURSIVE SeqsUpTo(_, _)
SeqsUpTo(S, n) ==
    IF n = 0 THEN {<<>>}
    ELSE LET shorter == SeqsUpTo(S, n - 1)
         IN  shorter \cup {Append(q, e) : q \in {t \in shorter : Len(t) = n - 1}, e \in S}

Has(d, f) == f \in DOMAIN d

\* `${d.f}` in a template literal
Interp(d, f) == IF Has(d, f) THEN <<ToString(d[f])>> ELSE <<"undefined">>

\* `${d.f}` for a string field
InterpText(d, f) == IF Has(d, f) THEN Chars(d[f]) ELSE <<"undefined">>

\* `${d.f || ''}`
InterpOrEmpty(d, f) == IF Has(d, f) THEN Chars(d[f]) ELSE <<>>

ScatterHeader == <<"X", ",", "Y", ",", "Label", ",", "Color", "\n">>

ChartHeader == <<"Label", ",", "Value", ",", "Color", "\n">>

ScatterRow(d) ==
    Interp(d, "x") \o <<",">> \o Interp(d, "y") \o <<",">>
        \o InterpOrEmpty(d, "label") \o <<",">> \o InterpOrEmpty(d, "color") \o <<"\n">>

\* a chart row written without the `|| ''` fallback of the colour
ChartRow_undefined(d) ==
    InterpText(d, "label") \o <<",">> \o Interp(d, "value") \o <<",">>
        \o InterpText(d, "color") \o <<"\n">>

ChartRow(d) ==
    InterpText(d, "label") \o <<",">> \o Interp(d, "value") \o <<",">>
        \o InterpOrEmpty(d, "color") \o <<"\n">>

RECURSIVE Rows(_, _, _)
Rows(data, i, scatter) ==
    IF i > Len(data) THEN <<>>
    ELSE (IF scatter THEN ScatterRow(data[i]) ELSE ChartRow(data[i]))
             \o Rows(data, i + 1, scatter)

\* the shape test looking at the last record instead of the first
IsScatterData_last(data) == Has(data[Len(data)], "x")

\* const isScatterData = 'x' in data[0]
IsScatterData(data) == Has(data[1], "x")

\* exportCSV writing a header for an empty data array
CsvContent_headerForEmpty(data) ==
    IF Len(data) = 0 THEN ChartHeader
    ELSE IF IsScatterData(data) THEN ScatterHeader \o Rows(data, 1, TRUE)
    ELSE ChartHeader \o Rows(data, 1, FALSE)

\* the text exportCSV returns
CsvContent(data) ==
    IF Len(data) = 0 THEN <<>>
    ELSE IF IsScatterData(data) THEN ScatterHeader \o Rows(data, 1, TRUE)
    ELSE ChartHeader \o Rows(data, 1, FALSE)

\* downloadFile(content, filename, mimeType): the object URL and the link
\* are created and released inside the call
DownloadFile(content, filename, mimeType) ==
    /\ downloads' = Append(downloads,
           [filename |-> filename, mimeType |-> mimeType, content |-> content])
    /\ nextUrl' = nextUrl + 1

\* `if (filename)`: an omitted filename and the empty string are both falsy
Given(filename) == filename # ""

\* whether exportCSV reaches its download step
CsvDownloads(data, filename) == Len(data) > 0 /\ Given(filename)

\* exportCSV(data, filename); filename = "" stands for no filename
ExportCSV(filename) ==
    /\ csvOut = NotRun
    /\ csvOut' = CsvContent(csvData)
    /\ fileArg' = [fileArg EXCEPT !.csv = filename]
    /\ IF CsvDownloads(csvData, filename)
       THEN DownloadFile(CsvContent(csvData), filename, "text/csv")
       ELSE UNCHANGED <<downloads, nextUrl>>
    /\ UNCHANGED <<svg, jsPDF, ctxOk, liveUrls, calls, csvData, jsonOut, chartVars>>

\* one field of a record as JSON.stringify writes it
JsonField(d, f) ==
    IF ~Has(d, f) THEN <<>>
    ELSE IF f \in {"label", "color"} THEN <<f, ":", "\"">> \o Chars(d[f]) \o <<"\"", ";">>
    ELSE <<f, ":", ToString(d[f]), ";">>

JsonRecord(d) ==
    <<"{">> \o JsonField(d, "label") \o JsonField(d, "value") \o JsonField(d, "x")
        \o JsonField(d, "y") \o JsonField(d, "color") \o <<"}">>

RECURSIVE JsonRecords(_, _)
JsonRecords(data, i) ==
    IF i > Len(data) THEN <<>> ELSE JsonRecord(data[i]) \o JsonRecords(data, i + 1)

\* JSON.stringify(data, null, 2)
JsonContent(data) == <<"[">> \o JsonRecords(data, 1) \o <<"]">>

\* exportJSON(data, filename)
ExportJSON(filename) ==
    /\ jsonOut = NotRun
    /\ jsonOut' = JsonContent(csvData)
    /\ fileArg' = [fileArg EXCEPT !.json = filename]
    /\ IF Given(filename)
       THEN DownloadFile(JsonContent(csvData), filename, "application/json")
       ELSE UNCHANGED <<downloads, nextUrl>>
    /\ UNCHANGED <<svg, jsPDF, ctxOk, liveUrls, calls, csvData, csvOut, chartVars>>

(***************************************************************************)
(* ScatterPlot: the trend line and the k-means clustering.  A coordinate   *)
(* is a floating-point number or one of the three values that are not      *)
(* finite; the data of this model has no negative coordinate, so every     *)
(* zero that reaches a division is +0.                                     *)
(***************************************************************************)
\* array.reduce((sum, t) => sum + t, 0) over the first i terms
RECURSIVE SumTo(_, _)
SumTo(terms, i) == IF i = 0 THEN Zero ELSE XAdd(SumTo(terms, i - 1), terms[i])

Sum(terms) == SumTo(terms, Len(terms))

Xs(data) == [i \in 1 .. Len(data) |-> data[i].x]

Ys(data) == [i \in 1 .. Len(data) |-> data[i].y]

RECURSIVE MinTo(_, _)
MinTo(xs, i) == IF i = 1 THEN xs[1] ELSE FMin(MinTo(xs, i - 1), xs[i])

RECURSIVE MaxTo(_, _)
MaxTo(xs, i) == IF i = 1 THEN xs[1] ELSE FMax(MaxTo(xs, i - 1), xs[i])

\* d3.min, d3.max and d3.extent over the x values of a non-empty array
MinX(data) == MinTo(Xs(data), Len(data))

MaxX(data) == MaxTo(Xs(data), Len(data))

\* v || 0
OrZero(v) == IF v = NaN \/ v = Zero THEN Zero ELSE v

\* the regression of y on x: the slope and the intercept
Regression_meanSlope(data) ==
    LET n == Num(Len(data))
        sumX == Sum(Xs(data))
        sumY == Sum(Ys(data))
        slope == XDiv(sumY, sumX)
        intercept == XDiv(XSub(sumY, XMul(slope, sumX)), n)
    IN  [slope |-> slope, intercept |-> intercept]

Regression(data) ==
    LET n == Num(Len(data))
        sumX == Sum(Xs(data))
        sumY == Sum(Ys(data))
        sumXY == Sum([i \in 1 .. Len(data) |-> XMul(data[i].x, data[i].y)])
        sumXX == Sum([i \in 1 .. Len(data) |-> XMul(data[i].x, data[i].x)])
        slope == XDiv(XSub(XMul(n, sumXY), XMul(sumX, sumY)),
                      XSub(XMul(n, sumXX), XMul(sumX, sumX)))
        intercept == XDiv(XSub(sumY, XMul(slope, sumX)), n)
    IN  [slope |-> slope, intercept |-> intercept]

\* the <line> from x1 to x2 on the fitted line, in data coordinates, with
\* the slope and the intercept it was computed from
LineThrough(fit, x1, x2) ==
    [slope |-> fit.slope, intercept |-> fit.intercept,
     x1 |-> x1, y1 |-> XAdd(XMul(fit.slope, x1), fit.intercept),
     x2 |-> x2, y2 |-> XAdd(XMul(fit.slope, x2), fit.intercept)]

\* line-chart.ts: the trend line, or nothing for fewer than two points
CalculateTrendLine(data) ==
    IF Len(data) < 2 THEN <<>>
    ELSE <<LineThrough(Regression(data), OrZero(MinX(data)), OrZero(MaxX(data)))>>

\* part_003: the trend line appended to the chart group
RenderTrendLine(data, type) ==
    IF type = "linear"
    THEN <<LineThrough(Regression(data), MinX(data), MaxX(data))>>
    ELSE <<>>

\* Math.sqrt: the floating-point number nearest to the square root of n/d
RECURSIVE SqrtPos(_, _, _)
SqrtPos(n, d, e) ==
    IF n >= d * Pow2(2 * Prec) THEN SqrtPos(n, 4 * d, e + 1)
    ELSE IF n < d * Pow2(2 * Prec - 2) THEN SqrtPos(4 * n, d, e - 1)
    ELSE LET m == CHOOSE r \in Pow2(Prec - 1) .. Pow2(Prec) - 1 :
                      r * r * d <= n /\ n < (r + 1) * (r + 1) * d
             up == (2 * m + 1) * (2 * m + 1) * d < 4 * n
                   \/ ((2 * m + 1) * (2 * m + 1) * d = 4 * n /\ m % 2 = 1)
             q == IF up THEN m + 1 ELSE m
         IN  IF e >= 0 THEN <<q * Pow2(e), 1>> ELSE Reduce(<<q, Pow2(-e)>>)

FSqrt(x) == IF x[1] = 0 THEN Zero ELSE SqrtPos(x[1], x[2], 0)

\* the Euclidean distance of a point to a centroid
Distance(point, centroid) ==
    LET dx == FSub(point[1], centroid[1])
        dy == FSub(point[2], centroid[2])
    IN  FSqrt(FAdd(FMul(dx, dx), FMul(dy, dy)))

\* the nearest centroid with `distance <= minDistance`: the last one on a tie
RECURSIVE NearestFrom_lastOnTie(_, _, _, _)
NearestFrom_lastOnTie(point, centroids, i, best) ==
    IF i > Len(centroids) THEN best
    ELSE IF RLeq(Distance(point, centroids[i]), Distance(point, centroids[best]))
         THEN NearestFrom_lastOnTie(point, centroids, i + 1, i)
         ELSE NearestFrom_lastOnTie(point, centroids, i + 1, best)

\* the index of the nearest of the centroids i .. k, the first one on a tie,
\* given that `best` is the nearest of the centroids before i
RECURSIVE NearestFrom(_, _, _, _)
NearestFrom(point, centroids, i, best) ==
    IF i > Len(centroids) THEN best
    ELSE IF RLess(Distance(point, centroids[i]), Distance(point, centroids[best]))
         THEN NearestFrom(point, centroids, i + 1, i)
         ELSE NearestFrom(point, centroids, i + 1, best)

Assign(points, centroids) ==
    [j \in 1 .. Len(points) |-> NearestFrom(points[j], centroids, 2, 1)]

\* the indices of the points of cluster i, in order
Members(assign, i) ==
    SelectSeq([j \in 1 .. Len(assign) |-> j], LAMBDA j : assign[j] = i)

Centroid(points, members) ==
    IF Len(members) = 0 THEN <<Zero, Zero>>
    ELSE <<FDiv(Sum([m \in 1 .. Len(members) |-> points[members[m]][1]]), Num(Len(members))),
           FDiv(Sum([m \in 1 .. Len(members) |-> points[members[m]][2]]), Num(Len(members)))>>

\* the iterations of the k-means loop
KMeansIterations == 10

\* clusters is this.clusters; centroids are the centroids the points of the
\* last iteration were assigned by
NoKm ==
    [ran |-> FALSE, threw |-> FALSE, iterations |-> 0, stableAt |-> 0, assign |-> <<>>,
     clusters |-> <<>>, centroids |-> <<>>]

\* Array.from({length: k}, () => []) after every point's index was pushed
Clusters(assign, k) == [i \in 1 .. k |-> Members(assign, i)]

\* the loop from the given iteration on; prev and used are the assignment of
\* the iteration before and its centroids; stableAt is the first iteration
\* whose assignment was the one of the iteration before it, 0 if none was
RECURSIVE Iterate(_, _, _, _, _, _)
Iterate(points, centroids, iteration, prev, used, stableAt) ==
    IF iteration >= KMeansIterations
    THEN [ran |-> TRUE, threw |-> FALSE, iterations |-> iteration,
          stableAt |-> stableAt, assign |-> prev,
          clusters |-> Clusters(prev, Len(centroids)), centroids |-> used]
    ELSE LET assign == Assign(points, centroids)
             next == [i \in 1 .. Len(centroids) |-> Centroid(points, Members(assign, i))]
         IN  Iterate(points, next, iteration + 1, assign, centroids,
                     IF stableAt = 0 /\ assign = prev THEN iteration + 1 ELSE stableAt)

\* performClustering on a non-empty array: seed[i] is the point
\* Math.random picks for centroid i; with no centroid the first
\* clusters[clusterIndex].push is a call on undefined
PerformClustering(data, k, seed) ==
    LET points == [j \in 1 .. Len(data) |-> <<data[j].x, data[j].y>>]
    IN  IF k < 1
        THEN [ran |-> TRUE, threw |-> TRUE, iterations |-> 0, stableAt |-> 0,
              assign |-> <<>>, clusters |-> <<>>, centroids |-> <<>>]
        ELSE Iterate(points, [i \in 1 .. k |-> points[seed[i]]], 0, <<>>, <<>>, 0)

ErrScatterFormat == "Scatter plot requires ScatterData[] format"

ErrType == "TypeError"

\* impl is "basic" for the class of line-chart.ts and "enhanced" for the
\* class of part_003; lines holds the trend-line elements of the chart group
\* the defaults of getDefaultOptions: one scalar option and the groups the
\* analytics and the interactions read
ScatterDefaults ==
    [width |-> 600,
     trendLine |-> [enabled |-> FALSE, type |-> "linear"],
     clustering |-> [enabled |-> FALSE, maxClusters |-> 5],
     selection |-> [enabled |-> FALSE, type |-> "rectangle", multipleSelection |-> TRUE],
     zoom |-> [enabled |-> FALSE, maxZoom |-> 5]]

\* config.options left out
NoOptions == [key \in {} |-> TRUE]

\* {...defaults, ...userOptions}: a key of userOptions replaces the default
\* of that key, a group as a whole
GetDefaultOptions(userOptions) ==
    [key \in DOMAIN ScatterDefaults \cup DOMAIN userOptions |->
        IF key \in DOMAIN userOptions THEN userOptions[key] ELSE ScatterDefaults[key]]

\* group.field as a condition: a field that is not there is undefined
Flag(group, field) == field \in DOMAIN group /\ group[field]

\* group.field as a length or loop bound: undefined bounds no iteration
Count(group, field) == IF field \in DOMAIN group THEN group[field] ELSE 0

\* group.field as a string
Text(group, field) == IF field \in DOMAIN group THEN group[field] ELSE "undefined"

\* given and options are config.options and this.options as the constructor
\* made them; showTrend, clustering, k and zoom.enabled are the fields of
\* this.options the methods write; selected is this.selectedPoints, with the
\* indices counted from 1; drag is the startPoint of the handlers of the
\* last render; zoom.made is this.zoom !== undefined; op and arg are the
\* last call
NoPlot ==
    [impl |-> "none", alive |-> FALSE, data |-> <<>>, showTrend |-> FALSE,
     trendType |-> "linear", clustering |-> FALSE, k |-> 0, lines |-> <<>>,
     km |-> NoKm, thrown |-> NoErr, warned |-> FALSE,
     given |-> NoOptions, options |-> ScatterDefaults, selected |-> {}, drag |-> FALSE,
     zoom |-> [enabled |-> FALSE, made |-> FALSE, attached |-> FALSE],
     op |-> "none", arg |-> <<>>]

Seeds(p) ==
    IF p.impl = "enhanced" /\ p.clustering /\ Len(p.data) > 0
    THEN [1 .. p.k -> 1 .. Len(p.data)]
    ELSE {<<>>}

\* render(): the chart group is cleared and drawn again
Render(p, seed) ==
    IF Len(p.data) = 0 THEN [p EXCEPT !.warned = TRUE]
    ELSE IF p.impl = "basic"
    THEN [p EXCEPT !.lines = IF p.showTrend THEN CalculateTrendLine(p.data) ELSE <<>>]
    ELSE LET run == PerformClustering(p.data, p.k, seed)
         IN  IF p.clustering /\ run.threw
             THEN [p EXCEPT !.lines = <<>>, !.thrown = ErrType,
                            !.km = [run EXCEPT !.assign = p.km.assign,
                                               !.clusters = p.km.clusters,
                                               !.centroids = p.km.centroids]]
             ELSE [p EXCEPT !.km = IF p.clustering THEN run ELSE @,
                            !.drag = FALSE,
                            !.lines = IF p.showTrend
                                      THEN RenderTrendLine(p.data, p.trendType)
                                      ELSE <<>>]

\* new ScatterPlot({container, data, options})
NewScatterPlot(impl, data, showTrend, trendType, clustering, k) ==
    /\ plot = NoPlot
    /\ IF Len(data) = 0
       THEN plot' = [NoPlot EXCEPT !.thrown = ErrScatterFormat]
       ELSE LET p == [NoPlot EXCEPT !.impl = impl, !.data = data, !.op = "new",
                                    !.showTrend = showTrend, !.trendType = trendType,
                                    !.clustering = clustering, !.k = k]
            IN  \E seed \in Seeds(p) :
                    LET r == Render(p, seed)
                    IN  plot' = [r EXCEPT !.alive = (r.thrown = NoErr)]
    /\ UNCHANGED <<exportVars, csvVars, page, chart, stage>>

\* update(newData)
ScatterUpdate(newData) ==
    /\ plot.alive
    /\ IF Len(newData) = 0
       THEN plot' = [plot EXCEPT !.warned = TRUE, !.thrown = NoErr,
                                 !.op = "update", !.arg = newData]
       ELSE LET p == [plot EXCEPT !.data = newData, !.thrown = NoErr,
                                  !.op = "update", !.arg = newData,
                                  !.selected = {},
                                  !.km = IF plot.impl = "enhanced" THEN NoKm ELSE @]
            IN  \E seed \in Seeds(p) : plot' = Render(p, seed)
    /\ UNCHANGED <<exportVars, csvVars, page, chart, stage>>

\* enableTrendLine(enabled)
EnableTrendLine(enabled) ==
    /\ plot.alive
    /\ plot.impl = "enhanced"
    /\ LET p == [plot EXCEPT !.showTrend = enabled, !.thrown = NoErr,
                             !.op = "enableTrendLine"]
       IN  \E seed \in Seeds(p) : plot' = Render(p, seed)
    /\ UNCHANGED <<exportVars, csvVars, page, chart, stage>>

\* enableClustering(enabled)
EnableClustering(enabled) ==
    /\ plot.alive
    /\ plot.impl = "enhanced"
    /\ LET p == [plot EXCEPT !.clustering = enabled, !.thrown = NoErr,
                             !.op = "enableClustering"]
       IN  \E seed \in Seeds(p) : plot' = Render(p, seed)
    /\ UNCHANGED <<exportVars, csvVars, page, chart, stage>>

\* setupZoom(): the zoom behaviour is made and attached to the <svg> if
\* options.zoom.enabled
SetupZoom(p) ==
    IF p.zoom.enabled THEN [p EXCEPT !.zoom.made = TRUE, !.zoom.attached = TRUE] ELSE p

\* new ScatterPlot({container, data, options}) of part_003
NewScatterPlotWith(data, userOptions) ==
    /\ plot.op = "none"
    /\ LET options == GetDefaultOptions(userOptions)
           p == [NoPlot EXCEPT !.impl = "enhanced", !.data = data, !.op = "new",
                               !.given = userOptions, !.options = options,
                               !.showTrend = Flag(options.trendLine, "enabled"),
                               !.trendType = Text(options.trendLine, "type"),
                               !.clustering = Flag(options.clustering, "enabled"),
                               !.k = Count(options.clustering, "maxClusters"),
                               !.zoom.enabled = Flag(options.zoom, "enabled")]
       IN  IF Len(data) = 0
           THEN plot' = [NoPlot EXCEPT !.op = "new", !.given = userOptions,
                                       !.thrown = ErrScatterFormat]
           ELSE \E seed \in Seeds(p) :
                    LET r == Render(SetupZoom(p), seed)
                    IN  plot' = [r EXCEPT !.alive = (r.thrown = NoErr)]
    /\ UNCHANGED <<exportVars, csvVars, page, chart, stage>>

\* the points of the last render have the click handler of setupSelection
PointSelection ==
    /\ plot.alive
    /\ plot.thrown = NoErr
    /\ Flag(plot.options.selection, "enabled")
    /\ Text(plot.options.selection, "type") = "point"

\* the <svg> has the mouse handlers of setupRectangleSelection
RectangleSelection ==
    /\ plot.alive
    /\ plot.thrown = NoErr
    /\ Flag(plot.options.selection, "enabled")
    /\ Text(plot.options.selection, "type") = "rectangle"

\* the click handler that never clears the selection
Toggle_keepOthers(selected, i, multiple) ==
    IF i \in selected THEN selected \ {i} ELSE selected \cup {i}

\* the click handler of a point: i is this.data.indexOf(d)
Toggle(selected, i, multiple) ==
    IF i \in selected THEN selected \ {i}
    ELSE (IF multiple THEN selected ELSE {}) \cup {i}

\* a click on the point of datum i
ClickPoint(i) ==
    /\ PointSelection
    /\ i \in 1 .. Len(plot.data)
    /\ plot' = [plot EXCEPT !.op = "click",
                            !.selected = Toggle(@, i, Flag(plot.options.selection,
                                                           "multipleSelection"))]
    /\ UNCHANGED <<exportVars, csvVars, page, chart, stage>>

\* mousedown on the <svg> itself: the selection rectangle starts
MouseDown ==
    /\ RectangleSelection
    /\ plot' = [plot EXCEPT !.op = "mousedown", !.drag = TRUE]
    /\ UNCHANGED <<exportVars, csvVars, page, chart, stage>>

\* mouseup with a rectangle started: inside are the points of the last
\* render whose position lies in the rectangle
MouseUp(inside) ==
    /\ RectangleSelection
    /\ plot.drag
    /\ inside \subseteq 1 .. Len(plot.data)
    /\ plot' = [plot EXCEPT !.op = "mouseup", !.drag = FALSE, !.selected = inside]
    /\ UNCHANGED <<exportVars, csvVars, page, chart, stage>>

\* resize(width, height)
ScatterResize ==
    /\ plot.alive
    /\ plot.impl = "enhanced"
    /\ LET p == [plot EXCEPT !.op = "resize", !.thrown = NoErr]
       IN  \E seed \in Seeds(p) : plot' = Render(p, seed)
    /\ UNCHANGED <<exportVars, csvVars, page, chart, stage>>

\* clearSelection()
ClearSelection ==
    /\ plot.alive
    /\ plot.impl = "enhanced"
    /\ LET p == [plot EXCEPT !.op = "clearSelection", !.thrown = NoErr, !.selected = {}]
       IN  \E seed \in Seeds(p) : plot' = Render(p, seed)
    /\ UNCHANGED <<exportVars, csvVars, page, chart, stage>>

\* enableZoom(enabled)
EnableZoom(enabled) ==
    /\ plot.alive
    /\ plot.impl = "enhanced"
    /\ LET p == [plot EXCEPT !.op = "enableZoom", !.zoom.enabled = enabled]
       IN  plot' = IF enabled /\ ~p.zoom.made THEN SetupZoom(p)
                   ELSE IF ~enabled /\ p.zoom.made THEN [p EXCEPT !.zoom.attached = FALSE]
                   ELSE p
    /\ UNCHANGED <<exportVars, csvVars, page, chart, stage>>

(***************************************************************************)
(* The chart constructors and update().  A data argument is a JavaScript   *)
(* value: null, undefined, an array of records, or an object with keys.    *)
(***************************************************************************)
Null == [type |-> "null", items |-> <<>>, keys |-> {}]

Undefined == [type |-> "undefined", items |-> <<>>, keys |-> {}]

Arr(items) == [type |-> "array", items |-> items, keys |-> {}]

Obj(keys) == [type |-> "object", items |-> <<>>, keys |-> keys]

EmptyArray == Arr(<<>>)

\* !v
Falsy(v) == v.type \in {"null", "undefined"}

\* !Array.isArray(v) || v.length === 0
NoRows(v) == v.type # "array" \/ Len(v.items) = 0

Kinds ==
    {"BarChart", "AreaChart", "AreaChart (export-manager.ts)", "LineChart",
     "LineChart (part_002)", "PieChart", "PieChart (part_004)", "ScatterPlot",
     "ScatterPlot (part_003)", "HeatmapChart", "TreemapChart", "BubbleChart",
     "GaugeChart", "NumberCards", "SankeyChart"}

LabelChecked == {"PieChart", "PieChart (part_004)", "LineChart (part_002)"}

XChecked == {"ScatterPlot", "ScatterPlot (part_003)"}

ErrNoContainer == "Container element not found"

ErrLineFormat == "Line chart requires ChartData[] format"

ErrMultiLineFormat == "Multi-line chart requires MultiLineChartData format with series and labels"

ErrPieFormat == "Pie chart requires ChartData[] format"

\* the error of the constructor's check of config.data, NoErr if it passes
DataError(kind, data) ==
    IF kind \in LabelChecked
    THEN IF NoRows(data) \/ ~Has(data.items[1], "label")
         THEN (IF kind = "LineChart (part_002)" THEN ErrLineFormat ELSE ErrPieFormat)
         ELSE NoErr
    ELSE IF kind \in XChecked
    THEN IF NoRows(data) \/ ~Has(data.items[1], "x") THEN ErrScatterFormat ELSE NoErr
    ELSE IF kind = "LineChart"
    THEN IF data.type = "array"
         THEN (IF Len(data.items) = 0 \/ ~Has(data.items[1], "label")
               THEN ErrLineFormat ELSE NoErr)
         ELSE (IF Falsy(data) \/ "series" \notin data.keys \/ "labels" \notin data.keys
               THEN ErrMultiLineFormat ELSE NoErr)
    ELSE NoErr

\* the value the constructor keeps in this.data
Held(kind, data) ==
    IF kind = "TreemapChart" /\ data.type = "array"
    THEN (IF Len(data.items) > 0 THEN Obj(DOMAIN data.items[1]) ELSE Undefined)
    ELSE data

\* the children of the container after createSVG (and createTooltip)
Created(kind) ==
    IF kind \in {"PieChart", "ScatterPlot (part_003)"} THEN <<"svg", "div">> ELSE <<"svg">>

\* update() returns with a warning for this argument
UpdateRejects(kind, newData) ==
    IF kind = "SankeyChart"
    THEN Falsy(newData) \/ "nodes" \notin newData.keys \/ "links" \notin newData.keys
    ELSE IF kind \in {"LineChart", "TreemapChart", "GaugeChart"}
    THEN Falsy(newData)
    ELSE Falsy(newData) \/ NoRows(newData)

NoWarning == "no-warning"

UpdateWarning(kind) ==
    IF kind \in {"AreaChart", "AreaChart (export-manager.ts)"}
    THEN "Invalid data provided to area chart update"
    ELSE IF kind = "BarChart" THEN "Invalid data provided to bar chart update"
    ELSE IF kind \in {"LineChart", "LineChart (part_002)"}
    THEN "Invalid data provided to line chart update"
    ELSE IF kind \in XChecked THEN "Invalid data provided to scatter plot update"
    ELSE IF kind = "NumberCards" THEN "Invalid data provided to number cards update"
    ELSE IF kind \in {"PieChart", "PieChart (part_004)"}
    THEN "Invalid data provided to pie chart update"
    ELSE IF kind = "TreemapChart" THEN "Invalid data provided to treemap chart update"
    ELSE IF kind = "HeatmapChart" THEN "Invalid data provided to heatmap chart update"
    ELSE IF kind = "BubbleChart" THEN "Invalid data provided to bubble chart update"
    ELSE IF kind = "GaugeChart" THEN "Invalid data provided to gauge chart update"
    ELSE "Invalid data provided to Sankey chart update"

\* this.data.reduce((sum, d) => sum + d.value, 0) over the first i rows
RECURSIVE TotalValue(_, _)
TotalValue(data, i) ==
    IF i = 0 THEN 0 ELSE TotalValue(data, i - 1) + data.items[i].value

\* totalValue <= 0, which no total with a missing value (NaN) satisfies
TotalAborts(data) ==
    /\ \A i \in 1 .. Len(data.items) : Has(data.items[i], "value")
    /\ TotalValue(data, Len(data.items)) <= 0

ChartNoun(kind) ==
    IF kind \in {"AreaChart", "AreaChart (export-manager.ts)"} THEN "area chart"
    ELSE IF kind = "BarChart" THEN "bar chart"
    ELSE IF kind \in {"LineChart", "LineChart (part_002)"} THEN "line chart"
    ELSE IF kind \in XChecked THEN "scatter plot"
    ELSE IF kind = "NumberCards" THEN "number cards"
    ELSE IF kind \in {"PieChart", "PieChart (part_004)"} THEN "pie chart"
    ELSE IF kind = "TreemapChart" THEN "treemap chart"
    ELSE IF kind = "HeatmapChart" THEN "heatmap chart"
    ELSE IF kind = "BubbleChart" THEN "bubble chart"
    ELSE IF kind = "GaugeChart" THEN "gauge chart"
    ELSE "Sankey chart"

ErrPieTotal == "Total value is zero or negative, cannot render pie chart"

\* what render() logs when it returns before it clears the chart group,
\* NoWarning when it draws
RenderWarning(kind, data) ==
    IF kind = "SankeyChart"
    THEN IF Falsy(data) \/ "nodes" \notin data.keys \/ "links" \notin data.keys
         THEN "Invalid data available for Sankey chart rendering" ELSE NoWarning
    ELSE IF Falsy(data) \/ (kind \notin {"LineChart", "TreemapChart", "GaugeChart"}
                              /\ data.type = "array" /\ Len(data.items) = 0)
    THEN "No data available for " \o ChartNoun(kind) \o " rendering"
    ELSE IF kind \in {"PieChart", "PieChart (part_004)"} /\ data.type = "array"
            /\ TotalAborts(data)
    THEN ErrPieTotal
    ELSE NoWarning

\* the data the chart group shows after render(): what it showed before
\* when render() returns early, the held data otherwise
Shown(kind, data, rendered) ==
    IF RenderWarning(kind, data) # NoWarning THEN rendered ELSE data

Attached == "div#chart"

Detached == "div"

NoElement == "null"

Selector(s) == [type |-> "selector", value |-> s]

Element(e) == [type |-> "element", value |-> e]

\* the container elements: the one of the document and one that was
\* created and never appended
InitialPage ==
    [e \in {Attached, Detached} |->
        [attached |-> (e = Attached), children |-> <<>>]]

\* the element matches the selector
Matches(e, s) == e = Attached /\ s = "#chart"

\* typeof config.container === 'string' ? document.querySelector(...) : it
ResolveContainer_anyElement(container) ==
    IF container.type = "selector" THEN Attached ELSE container.value

ResolveContainer(container) ==
    IF container.type = "selector"
    THEN IF \E e \in DOMAIN page : page[e].attached /\ Matches(e, container.value)
         THEN CHOOSE e \in DOMAIN page : page[e].attached /\ Matches(e, container.value)
         ELSE NoElement
    ELSE container.value

\* op, container and arg are the last call and its arguments; before is the
\* page and the chart's data and drawing when that call was made
NoChart ==
    [kind |-> "none", alive |-> FALSE, element |-> NoElement, data |-> Undefined,
     rendered |-> Undefined, thrown |-> NoErr, warning |-> NoWarning,
     op |-> "none", container |-> Selector(""), arg |-> Undefined,
     before |-> [page |-> InitialPage, data |-> Undefined, rendered |-> Undefined]]

\* new <kind>({container, data})
NewChart(kind, container, data) ==
    /\ chart.op = "none"
    /\ LET el == ResolveContainer(container)
           call == [chart EXCEPT !.kind = kind, !.op = "new", !.container = container,
                                 !.arg = data,
                                 !.before = [page |-> page, data |-> Undefined,
                                             rendered |-> Undefined]]
       IN  IF el = NoElement
           THEN /\ chart' = [call EXCEPT !.thrown = ErrNoContainer]
                /\ page' = page
           ELSE IF DataError(kind, data) # NoErr
           THEN /\ chart' = [call EXCEPT !.thrown = DataError(kind, data)]
                /\ page' = page
           ELSE /\ page' = [page EXCEPT ![el].children = Created(kind)]
                /\ chart' = [call EXCEPT !.alive = TRUE, !.element = el,
                                         !.data = Held(kind, data),
                                         !.warning = RenderWarning(kind, Held(kind, data)),
                                         !.rendered = Shown(kind, Held(kind, data), Undefined)]
    /\ UNCHANGED <<exportVars, csvVars, plot, stage>>

\* chart.update(newData)
UpdateChart(newData) ==
    /\ chart.alive
    /\ LET call == [chart EXCEPT !.op = "update", !.arg = newData, !.thrown = NoErr,
                                 !.warning = NoWarning,
                                 !.before = [page |-> page, data |-> chart.data,
                                             rendered |-> chart.rendered]]
       IN  IF UpdateRejects(chart.kind, newData)
           THEN chart' = [call EXCEPT !.warning = UpdateWarning(chart.kind)]
           ELSE chart' = [call EXCEPT !.data = newData,
                                      !.warning = RenderWarning(chart.kind, newData),
                                      !.rendered = Shown(chart.kind, newData, chart.rendered)]
    /\ UNCHANGED <<exportVars, csvVars, plot, page, stage>>

(***************************************************************************)
(* The nodes the charts make.  Two chart objects, A and B, are constructed *)
(* on the same container element of the document; every node is recorded   *)
(* with the chart that appended it.  Only AreaChart of area-chart.ts       *)
(* appends outside its chart group when it renders: a <defs> to its <svg>  *)
(* and a tooltip <div> to the body.                                        *)
(***************************************************************************)
Ids == {"A", "B"}

NoInstance ==
    [kind |-> "none", made |-> FALSE, gradient |-> FALSE, tooltip |-> FALSE,
     defs |-> 0, destroyed |-> 0]

\* op and id are the last call and the chart it was made on; before is the
\* document when that call was made
NoStage ==
    [container |-> <<>>, body |-> <<>>, inst |-> [i \in Ids |-> NoInstance],
     op |-> "none", id |-> "A", ops |-> 0,
     before |-> [container |-> <<>>, body |-> <<>>]]

\* the nodes createSVG (and createTooltip) of chart id append to the container
CreatedBy(id, kind) ==
    [i \in DOMAIN Created(kind) |-> [tag |-> Created(kind)[i], owner |-> id]]

\* options.gradient.enabled and options.tooltip.enabled of getDefaultOptions
DefaultInstance(kind) ==
    [NoInstance EXCEPT !.kind = kind, !.made = TRUE, !.tooltip = (kind = "AreaChart")]

\* render() of chart id on non-empty data: the chart group is cleared and
\* drawn again; addArea calls createGradient and addTooltip
RenderNodes(s, id) ==
    IF s.inst[id].kind = "AreaChart"
    THEN [s EXCEPT !.inst[id].defs = IF s.inst[id].gradient THEN @ + 1 ELSE @,
                   !.body = IF s.inst[id].tooltip
                            THEN Append(@, [tag |-> "div.area-chart-tooltip", owner |-> id])
                            ELSE @]
    ELSE s

\* the record of a call op on chart id
StageCall(op, id) ==
    [stage EXCEPT !.op = op, !.id = id, !.ops = @ + 1,
                  !.before = [container |-> stage.container, body |-> stage.body]]

\* new <kind>({container: '#chart', data}): createSVG clears the container
StageNew(id, kind) ==
    /\ stage.ops < MaxOps
    /\ ~stage.inst[id].made
    /\ stage' = RenderNodes([StageCall("new", id) EXCEPT
                                !.container = CreatedBy(id, kind),
                                !.inst[id] = DefaultInstance(kind)], id)
    /\ UNCHANGED <<exportVars, csvVars, plot, page, chart>>

\* chart.update(newData) with a non-empty array
StageUpdate(id) ==
    /\ stage.ops < MaxOps
    /\ stage.inst[id].made
    /\ stage' = RenderNodes(StageCall("update", id), id)
    /\ UNCHANGED <<exportVars, csvVars, plot, page, chart>>

\* chart.resize(width, height)
StageResize(id) ==
    /\ stage.ops < MaxOps
    /\ stage.inst[id].made
    /\ stage' = RenderNodes(StageCall("resize", id), id)
    /\ UNCHANGED <<exportVars, csvVars, plot, page, chart>>

\* areaChart.enableGradient()
StageEnableGradient(id) ==
    /\ stage.ops < MaxOps
    /\ stage.inst[id].made
    /\ stage.inst[id].kind = "AreaChart"
    /\ stage' = RenderNodes([StageCall("enableGradient", id) EXCEPT
                                !.inst[id].gradient = TRUE], id)
    /\ UNCHANGED <<exportVars, csvVars, plot, page, chart>>

\* areaChart.setTooltipFormat(format)
StageSetTooltipFormat(id) ==
    /\ stage.ops < MaxOps
    /\ stage.inst[id].made
    /\ stage.inst[id].kind = "AreaChart"
    /\ stage' = RenderNodes([StageCall("setTooltipFormat", id) EXCEPT
                                !.inst[id].tooltip = TRUE], id)
    /\ UNCHANGED <<exportVars, csvVars, plot, page, chart>>

\* chart.destroy(): this.svg.remove() (and this.tooltip.remove()) detach the
\* chart's own nodes if they are still in the container, then
\* d3.select(this.container).selectAll('*').remove() detaches every node
\* that is in the container
StageDestroy(id) ==
    /\ stage.ops < MaxOps
    /\ stage.inst[id].made
    /\ stage' = [StageCall("destroy", id) EXCEPT
                    !.container = <<>>,
                    !.inst[id].destroyed = @ + 1]
    /\ UNCHANGED <<exportVars, csvVars, plot, page, chart>>

(***************************************************************************)
(* A chart and the export manager on the same container: the chart's       *)
(* methods run between the handlers of an export.  exportPNG keeps the     *)
(* <svg> element it found and reads its bounding box in img.onload.        *)
(***************************************************************************)
\* chart.resize(width, height): the viewBox changes; the box of the <svg>
\* (width and height 100%) stays as it is in a container of definite size
\* and takes the new aspect ratio in one whose height follows its content
LiveResize(width, height) ==
    /\ chart.alive
    /\ svg.present
    /\ \E rect \in {svg.rect, <<width, height>>} :
           svg' = [svg EXCEPT !.rect = rect]
    /\ chart' = [chart EXCEPT !.op = "resize", !.thrown = NoErr, !.warning = NoWarning,
                              !.before = [page |-> page, data |-> chart.data,
                                          rendered |-> chart.rendered]]
    /\ UNCHANGED <<jsPDF, ctxOk, liveUrls, nextUrl, calls, csvVars, plot, page, stage>>

\* chart.destroy(): the <svg> leaves the document, and the element the
\* export calls in flight hold has an empty bounding box from then on
LiveDestroy ==
    /\ chart.alive
    /\ svg' = NoSvg
    /\ page' = [page EXCEPT ![chart.element].children = <<>>]
    /\ chart' = [chart EXCEPT !.op = "destroy", !.alive = FALSE,
                              !.rendered = Undefined,
                              !.thrown = NoErr, !.warning = NoWarning,
                              !.before = [page |-> page, data |-> chart.data,
                                          rendered |-> chart.rendered]]
    /\ UNCHANGED <<jsPDF, ctxOk, liveUrls, nextUrl, calls, csvVars, plot, stage>>

(***************************************************************************)
(* Specifications.                                                         *)
(***************************************************************************)
\* the <svg> the charts of the concurrency specification have rendered
SpecRect == <<2, 3>>

\* the target sizes the callers of the concurrency specification ask for
SpecSizes == {<<4, 3>>}

Dims == {n \in 1 .. MaxDim : Representable(n)}

NoFileArg == [csv |-> "", json |-> ""]

CsvIdle ==
    /\ csvData = <<>>
    /\ csvOut = NotRun
    /\ downloads = <<>>
    /\ jsonOut = NotRun
    /\ fileArg = NoFileArg

ChartIdle ==
    /\ plot = NoPlot
    /\ page = InitialPage
    /\ chart = NoChart
    /\ stage = NoStage

\* concurrent export calls on one container
Init ==
    /\ svg \in {NoSvg, RenderedSvg(SpecRect[1], SpecRect[2])}
    /\ jsPDF \in BOOLEAN
    /\ ctxOk \in BOOLEAN
    /\ liveUrls = {}
    /\ nextUrl = 1
    /\ calls = [c \in Calls |-> IdleCall]
    /\ CsvIdle
    /\ ChartIdle

Next ==
    \E c \in DOMAIN calls :
        \/ \E sz \in SpecSizes : ExportPNG(c, sz[1], sz[2])
        \/ \E threw \in BOOLEAN : PngImageLoad(c, threw)
        \/ PngImageError(c)
        \/ \E hasBlob \in BOOLEAN : PngBlob(c, hasBlob)
        \/ \E opt \in {Omitted, "true", "false"} : ExportSVG(c, opt)
        \/ \E sz \in SpecSizes : ExportPDF(c, sz[1], sz[2], "Q3 report", Omitted, "sales")
        \/ PdfResume(c)
        \/ \E asmThrew \in BOOLEAN : PdfImageLoad(c, asmThrew)
        \/ PdfImageError(c)

Spec == Init /\ [][Next]_vars

\* one export call, over the target sizes, the source sizes and the
\* metadata a request can carry
InitOne ==
    /\ \E w0 \in Dims, h0 \in Dims : svg = RenderedSvg(w0, h0)
    /\ jsPDF = TRUE
    /\ ctxOk = TRUE
    /\ liveUrls = {}
    /\ nextUrl = 1
    /\ calls = [c \in {1} |-> IdleCall]
    /\ CsvIdle
    /\ ChartIdle

NextOne ==
    \E c \in DOMAIN calls :
        \/ \E w \in Dims, h \in Dims : ExportPNG(c, w, h)
        \/ \E threw \in BOOLEAN : PngImageLoad(c, threw)
        \/ PngImageError(c)
        \/ \E hasBlob \in BOOLEAN : PngBlob(c, hasBlob)
        \/ \E sz \in SpecSizes, title \in {Omitted, "Q3 report"},
              author \in {Omitted, "Ana"}, subject \in {Omitted, "sales"} :
                ExportPDF(c, sz[1], sz[2], title, author, subject)
        \/ PdfResume(c)
        \/ \E asmThrew \in BOOLEAN : PdfImageLoad(c, asmThrew)
        \/ PdfImageError(c)

SpecOne == InitOne /\ [][NextOne]_vars

\* exportCSV over the data sets of at most MaxRows records
InitCsv ==
    /\ svg = NoSvg
    /\ jsPDF = FALSE
    /\ ctxOk = FALSE
    /\ liveUrls = {}
    /\ nextUrl = 1
    /\ calls = [c \in {1} |-> IdleCall]
    /\ csvData \in SeqsUpTo(CsvRecords, MaxRows)
    /\ csvOut = NotRun
    /\ downloads = <<>>
    /\ jsonOut = NotRun
    /\ fileArg = NoFileArg
    /\ ChartIdle

NextCsv ==
    \/ \E filename \in {"", "chart.csv"} : ExportCSV(filename)
    \/ \E filename \in {"", "chart.json"} : ExportJSON(filename)

SpecCsv == InitCsv /\ [][NextCsv]_vars

ExportIdle ==
    /\ svg = NoSvg
    /\ jsPDF = FALSE
    /\ ctxOk = FALSE
    /\ liveUrls = {}
    /\ nextUrl = 1
    /\ calls = [c \in {1} |-> IdleCall]

Coords == {0, 1, 3}

Point(a, b) == [x |-> Num(a), y |-> Num(b)]

Points == {Point(a, b) : a \in Coords, b \in Coords}

ExampleLine == <<Point(0, 0), Point(1, 1), Point(2, 2)>>

TrendData == SeqsUpTo(Points, MaxPoints) \cup {ExampleLine}

TrendUpdates == {<<>>, <<Point(1, 2)>>, <<Point(0, 1), Point(3, 2)>>, ExampleLine}

\* one ScatterPlot of either implementation with its trend line
InitTrend ==
    /\ ExportIdle
    /\ CsvIdle
    /\ ChartIdle

NextTrend ==
    \/ \E data \in TrendData, showTrend \in BOOLEAN :
            NewScatterPlot("basic", data, showTrend, "linear", FALSE, 0)
    \/ \E data \in TrendData, showTrend \in BOOLEAN, type \in {"linear", "unset"} :
            NewScatterPlot("enhanced", data, showTrend, type, FALSE, 0)
    \/ \E newData \in TrendUpdates : ScatterUpdate(newData)
    \/ \E enabled \in BOOLEAN : EnableTrendLine(enabled)

SpecTrend == InitTrend /\ [][NextTrend]_vars

ClusterPoints == {Point(0, 0), Point(0, 1), Point(3, 3)}

ClusterCounts == {0, 1, 2}

ClusterData ==
    {<<a>> : a \in ClusterPoints}
        \cup {<<a, b>> : a \in ClusterPoints, b \in ClusterPoints}
        \cup {<<Point(0, 0), Point(0, 1), Point(3, 3)>>,
              <<Point(0, 0), Point(0, 2), Point(4, 1)>>}

ClusterUpdates == {<<>>, <<Point(1, 1)>>, <<Point(3, 3), Point(0, 0), Point(3, 2)>>}

\* one ScatterPlot of part_003 with its clustering
InitCluster ==
    /\ ExportIdle
    /\ CsvIdle
    /\ ChartIdle

NextCluster ==
    \/ \E data \in ClusterData, clustering \in BOOLEAN, k \in ClusterCounts :
            NewScatterPlot("enhanced", data, FALSE, "linear", clustering, k)
    \/ \E newData \in ClusterUpdates : ScatterUpdate(newData)
    \/ \E enabled \in BOOLEAN : EnableClustering(enabled)

SpecCluster == InitCluster /\ [][NextCluster]_vars

ChartRows == Arr(<<[label |-> "A", value |-> 10], [label |-> "B", value |-> 20]>>)

ValueRows == Arr(<<[value |-> 10], [value |-> 20]>>)

ScatterRows == Arr(<<[x |-> 1, y |-> 2], [x |-> 2, y |-> 3]>>)

BubbleRows == Arr(<<[x |-> 1, y |-> 2, r |-> 5]>>)

HeatmapRows == Arr(<<[x |-> 1, y |-> 2, value |-> 5]>>)

CardRows == Arr(<<[title |-> "Revenue", value |-> 10]>>)

\* data of the shape the chart is for
ValidData(kind) ==
    IF kind \in {"BarChart", "AreaChart", "AreaChart (export-manager.ts)",
                 "LineChart (part_002)", "PieChart", "PieChart (part_004)"}
    THEN {ChartRows}
    ELSE IF kind = "LineChart" THEN {ChartRows, Obj({"series", "labels"})}
    ELSE IF kind \in XChecked THEN {ScatterRows}
    ELSE IF kind = "HeatmapChart" THEN {HeatmapRows}
    ELSE IF kind = "BubbleChart" THEN {BubbleRows}
    ELSE IF kind = "NumberCards" THEN {CardRows}
    ELSE IF kind = "TreemapChart" THEN {Obj({"name", "value", "children"})}
    ELSE IF kind = "GaugeChart" THEN {Obj({"value", "min", "max"})}
    ELSE {Obj({"nodes", "links"})}

\* records without `label` for the charts of ChartData, records without `x`
\* for the scatter plots
WrongShape(kind) ==
    IF kind \in {"BarChart", "AreaChart", "AreaChart (export-manager.ts)", "LineChart",
                 "LineChart (part_002)", "PieChart", "PieChart (part_004)"}
    THEN {ValueRows}
    ELSE IF kind \in XChecked THEN {ChartRows}
    ELSE {}

TakesArray ==
    Kinds \ {"TreemapChart", "GaugeChart", "SankeyChart"}

\* slices that sum to zero
ZeroRows == Arr(<<[label |-> "A", value |-> 0], [label |-> "B", value |-> 0]>>)

UpdateArgs(kind) ==
    {Null, Undefined} \cup ValidData(kind)
        \cup (IF kind \in TakesArray THEN {EmptyArray} ELSE {})
        \cup (IF kind \in {"PieChart", "PieChart (part_004)"} THEN {ZeroRows} ELSE {})

\* the data arguments of the constructors: of the right shape, of a wrong
\* shape, and the empty array for the classes that are given arrays
ConstructorArgs(kind) ==
    ValidData(kind) \cup WrongShape(kind)
        \cup (IF kind \in TakesArray \cup {"TreemapChart"} THEN {EmptyArray} ELSE {})
        \cup (IF kind \in {"PieChart", "PieChart (part_004)"} THEN {ZeroRows} ELSE {})

Containers ==
    {Selector("#chart"), Selector("#non-existent"), Element(Attached), Element(Detached)}

\* one chart of any class on a page whose container may hold earlier content
InitCharts ==
    /\ ExportIdle
    /\ CsvIdle
    /\ plot = NoPlot
    /\ chart = NoChart
    /\ stage = NoStage
    /\ \E earlier \in {<<>>, <<"p">>} :
           page = [InitialPage EXCEPT ![Attached].children = earlier,
                                      ![Detached].children = earlier]

NextCharts ==
    \/ \E kind \in Kinds, container \in Containers :
           \E data \in ConstructorArgs(kind) : NewChart(kind, container, data)
    \/ \E newData \in UpdateArgs(chart.kind) : UpdateChart(newData)

SpecCharts == InitCharts /\ [][NextCharts]_vars

\* the charts a page constructs on its one container
StageKinds == Kinds

InitStage ==
    /\ ExportIdle
    /\ CsvIdle
    /\ ChartIdle

NextStage ==
    \/ \E id \in Ids, kind \in StageKinds : StageNew(id, kind)
    \/ \E id \in Ids : StageUpdate(id)
    \/ \E id \in Ids : StageResize(id)
    \/ \E id \in Ids : StageEnableGradient(id)
    \/ \E id \in Ids : StageSetTooltipFormat(id)
    \/ \E id \in Ids : StageDestroy(id)

SpecStage == InitStage /\ [][NextStage]_vars

\* the box sizes a resize of the live chart asks for
LiveSizes == {<<4, 3>>, <<3, 2>>}

\* a BarChart rendered in the container of the export manager
InitLive ==
    /\ svg = RenderedSvg(SpecRect[1], SpecRect[2])
    /\ jsPDF = TRUE
    /\ ctxOk = TRUE
    /\ liveUrls = {}
    /\ nextUrl = 1
    /\ calls = [c \in Calls |-> IdleCall]
    /\ CsvIdle
    /\ plot = NoPlot
    /\ stage = NoStage
    /\ page = [InitialPage EXCEPT ![Attached].children = Created("BarChart")]
    /\ chart = [NoChart EXCEPT !.kind = "BarChart", !.alive = TRUE, !.element = Attached,
                               !.data = ChartRows, !.rendered = ChartRows, !.op = "new",
                               !.container = Selector("#chart"), !.arg = ChartRows]

\* one export call, and the chart's methods between its handlers
NextLive ==
    \/ \E size \in SpecSizes : ExportPNG(1, size[1], size[2])
    \/ \E threw \in BOOLEAN : PngImageLoad(1, threw)
    \/ PngImageError(1)
    \/ \E hasBlob \in BOOLEAN : PngBlob(1, hasBlob)
    \/ \E size \in LiveSizes : LiveResize(size[1], size[2])
    \/ \E newData \in UpdateArgs(chart.kind) : UpdateChart(newData)
    \/ LiveDestroy

SpecLive == InitLive /\ [][NextLive]_vars

\* the options objects a ScatterPlot is constructed with
UserOptions ==
    {NoOptions,
     [width |-> 800],
     [trendLine |-> [enabled |-> TRUE]],
     [clustering |-> [enabled |-> TRUE]],
     [clustering |-> [enabled |-> TRUE, maxClusters |-> 2]],
     [selection |-> [enabled |-> TRUE]],
     [selection |-> [enabled |-> TRUE, type |-> "point"]],
     [selection |-> [enabled |-> TRUE, type |-> "point", multipleSelection |-> FALSE]],
     [selection |-> [enabled |-> TRUE, type |-> "point", multipleSelection |-> TRUE]],
     [selection |-> [enabled |-> TRUE, type |-> "rectangle", multipleSelection |-> TRUE]],
     [zoom |-> [enabled |-> TRUE]],
     [zoom |-> [enabled |-> TRUE, maxZoom |-> 5]]}

InteractData == {<<>>, <<Point(0, 0)>>, <<Point(0, 0), Point(1, 1)>>}

\* one ScatterPlot of part_003 with its selection and its zoom
InitInteract ==
    /\ ExportIdle
    /\ CsvIdle
    /\ ChartIdle

NextInteract ==
    \/ \E data \in InteractData, userOptions \in UserOptions :
            NewScatterPlotWith(data, userOptions)
    \/ \E i \in 1 .. 2 : ClickPoint(i)
    \/ MouseDown
    \/ \E inside \in SUBSET (1 .. 2) : MouseUp(inside)
    \/ \E newData \in InteractData : ScatterUpdate(newData)
    \/ ScatterResize
    \/ ClearSelection
    \/ \E enabled \in BOOLEAN : EnableZoom(enabled)

SpecInteract == InitInteract /\ [][NextInteract]_vars

(***************************************************************************)
(* Properties of the export pipeline.                                      *)
(***************************************************************************)
\* the state of the promise the call returned
Outcome(r) == IF r.kind = "png" THEN r.pstat ELSE r.ostat

\* the error the returned promise was rejected with
Error(r) == IF r.kind = "png" THEN r.perr ELSE r.oerr

\* no handler of the call remains to run
Finished(r) ==
    \/ r.kind = "png" /\ r.ppc \in {"done", "aborted"}
    \/ r.kind = "svg"
    \/ r.kind = "pdf" /\ (r.opc = "done" \/ (r.opc = "await" /\ r.ppc = "aborted"))

Started == {c \in DOMAIN calls : calls[c].kind # "none"}

StartsWith(t, h) == Len(t) >= Len(h) /\ SubSeq(t, 1, Len(h)) = h

Contains(t, e) == \E i \in 1 .. Len(t) : t[i] = e

\* C1 as stated: an export on a container without an <svg> root never
\* resolves, and once it has run it is rejected with the NotFound error,
\* whatever the canvas context and jsPDF are.
C1_NoSvgAlwaysNotFound ==
    \A c \in Started :
        ~svg.present =>
            /\ Outcome(calls[c]) # "resolved"
            /\ Finished(calls[c]) => Outcome(calls[c]) = "rejected"
            /\ Outcome(calls[c]) = "rejected" => Error(calls[c]) = ErrNoSvg

\* the error the code raises first on a container without an <svg> root
NoSvgError(r) ==
    IF r.kind = "pdf" /\ ~jsPDF THEN ErrNoJsPDF
    ELSE IF r.kind \in {"png", "pdf"} /\ ~ctxOk THEN ErrNoContext
    ELSE ErrNoSvg

\* C1 amended: an export on a container without an <svg> root never resolves
\* and creates no object URL or output; it is rejected, with the NotFound
\* error unless jsPDF is missing (exportPDF) or the canvas context is
\* unavailable (exportPNG, exportPDF), which are reported first.
C1_NoSvgAlwaysRejected ==
    \A c \in Started :
        ~svg.present =>
            /\ Outcome(calls[c]) # "resolved"
            /\ calls[c].created = {}
            /\ calls[c].out = NoOut
            /\ Finished(calls[c]) => Outcome(calls[c]) = "rejected"
            /\ Outcome(calls[c]) = "rejected" => Error(calls[c]) = NoSvgError(calls[c])

C1_Witness ==
    \E c, d \in Started :
        /\ ~svg.present /\ ctxOk /\ jsPDF
        /\ calls[c].kind = "pdf" /\ calls[c].ostat = "rejected" /\ calls[c].oerr = ErrNoSvg
        /\ calls[d].kind = "svg" /\ calls[d].ostat = "rejected" /\ calls[d].oerr = ErrNoSvg

\* C2: once an exportPNG run is over (its promise settled, or its image-load
\* callback ended by an exception) the object URL it created for the
\* serialized SVG is revoked.
C2_SvgUrlRevoked ==
    \A c \in Started :
        calls[c].ppc \in {"done", "aborted"} => calls[c].svgUrl \notin liveUrls

\* C3: exportPDF revokes its PNG URL on success, on an assembly exception
\* and on a load error; once exportPDF has settled none of the URLs created
\* during the call is live; if the inner exportPNG rejects no PNG URL exists.
C3_PdfUrlsRevoked ==
    \A c \in Started :
        calls[c].kind = "pdf" =>
            /\ calls[c].opc = "done" => calls[c].pngUrl \notin liveUrls
            /\ calls[c].ostat \in {"resolved", "rejected"} =>
                   calls[c].created \cap liveUrls = {}
            /\ calls[c].pstat = "rejected" =>
                   calls[c].pngUrl = NoUrl /\ Cardinality(calls[c].created) <= 1

C3_Witness ==
    \E c \in Started :
        /\ calls[c].kind = "pdf" /\ calls[c].ostat = "rejected"
        /\ calls[c].asmThrew = "yes"
        /\ calls[c].pngUrl # NoUrl /\ calls[c].pngUrl \in calls[c].revoked
        /\ calls[c].svgUrl \in calls[c].revoked

\* C4: every export call that has run to its end has settled its promise,
\* and exactly once.
C4_SettlesOnce ==
    \A c \in Started :
        /\ calls[c].settles <= 1
        /\ Finished(calls[c]) =>
               Outcome(calls[c]) \in {"resolved", "rejected"} /\ calls[c].settles = 1

\* the outcome of exportPNG run alone, from the events delivered to it
PngAlone(r) ==
    IF ~ctxOk THEN <<"rejected", ErrNoContext>>
    ELSE IF ~svg.present THEN <<"rejected", ErrNoSvg>>
    ELSE IF r.loaded = "no" THEN <<"rejected", ErrSvgLoad>>
    ELSE IF r.blobOk = "no" THEN <<"rejected", ErrNoBlob>>
    ELSE IF r.blobOk = "yes" THEN <<"resolved", NoErr>>
    ELSE <<"pending", NoErr>>

\* the outcome of the call run alone on the container
Alone(r) ==
    IF r.kind = "png" THEN PngAlone(r)
    ELSE IF r.kind = "svg"
    THEN (IF svg.present THEN <<"resolved", NoErr>> ELSE <<"rejected", ErrNoSvg>>)
    ELSE IF ~jsPDF THEN <<"rejected", ErrNoJsPDF>>
    ELSE IF PngAlone(r)[1] # "resolved" THEN PngAlone(r)
    ELSE IF r.pdfLoaded = "no" THEN <<"rejected", ErrPngLoad>>
    ELSE IF r.asmThrew = "yes" THEN <<"rejected", ErrAssembly>>
    ELSE IF r.asmThrew = "no" THEN <<"resolved", NoErr>>
    ELSE <<"pending", NoErr>>

\* the URLs of the browser's store are those created by some call and not
\* revoked by it; no call revokes a URL of another call
OwnUrls ==
    /\ \A c \in DOMAIN calls : calls[c].revoked \subseteq calls[c].created
    /\ \A c, d \in DOMAIN calls :
           c # d => calls[c].created \cap calls[d].created = {}
    /\ liveUrls = UNION {calls[c].created \ calls[c].revoked : c \in DOMAIN calls}

\* every call that has run to its end has the outcome it has alone
AloneOutcome ==
    \A c \in DOMAIN calls :
        Finished(calls[c]) =>
            <<Outcome(calls[c]), Error(calls[c])>> = Alone(calls[c])

\* C5: under every interleaving of the export calls no step changes the
\* container's <svg>, each call creates and revokes only its own object
\* URLs, and a call that has run to its end has the outcome it has alone.
C5_Isolation == [][svg' = svg /\ OwnUrls' /\ AloneOutcome']_vars

C5_Witness ==
    \E c, d \in Started :
        /\ c # d
        /\ calls[c].kind = "png" /\ calls[d].kind = "png"
        /\ calls[c].pstat = "resolved" /\ calls[d].pstat = "rejected"
        /\ calls[c].svgUrl # calls[d].svgUrl
        /\ calls[c].svgUrl > calls[d].svgUrl
        /\ liveUrls = {}

\* C6: exportPDF called while window.jsPDF is undefined is rejected with the
\* dependency-missing error, without having called exportPNG, created an
\* object URL or queried the container.
C6_MissingJsPDF ==
    \A c \in Started :
        (calls[c].kind = "pdf" /\ ~jsPDF) =>
            /\ calls[c].ostat = "rejected" /\ calls[c].oerr = ErrNoJsPDF
            /\ calls[c].ppc = "none" /\ calls[c].pstat = "none"
            /\ calls[c].created = {}
            /\ ~calls[c].queried

C6_Witness ==
    \E c \in Started :
        /\ calls[c].kind = "pdf" /\ ~jsPDF /\ svg.present /\ ctxOk
        /\ calls[c].oerr = ErrNoJsPDF

\* a metadata field of the request, or the product name when it is omitted
OrProductName(v) == IF v = Omitted THEN ProductName ELSE v

\* C7: the PDF's properties carry the title, author and subject of the
\* request, each defaulting to the product name when the request omits it.
C7_PdfMetadata ==
    \A c \in Started :
        (calls[c].kind = "pdf" /\ calls[c].ostat = "resolved") =>
            /\ calls[c].meta.title = OrProductName(calls[c].title)
            /\ calls[c].meta.author = OrProductName(calls[c].author)
            /\ calls[c].meta.subject = OrProductName(calls[c].subject)

\* exact arithmetic on fractions, for stating the bounds
RAdd(x, y) == <<x[1] * y[2] + y[1] * x[2], x[2] * y[2]>>

RMul(x, y) == <<x[1] * y[1], x[2] * y[2]>>

RMin(x, y) == IF RLeq(x, y) THEN x ELSE y

Drawn == {c \in Started : calls[c].place.drawn}

\* C8 as stated: the rectangle exportPNG draws lies inside the canvas, both
\* offsets are non-negative and at least one of them is 0.
C8_PlacementInsideCanvas ==
    \A c \in Drawn :
        LET pl == calls[c].place
        IN  /\ RLeq(Num(0), pl.offsetX) /\ RLeq(Num(0), pl.offsetY)
            /\ pl.offsetX = Num(0) \/ pl.offsetY = Num(0)
            /\ RLeq(RAdd(pl.offsetX, pl.scaledWidth), Num(calls[c].width))
            /\ RLeq(RAdd(pl.offsetY, pl.scaledHeight), Num(calls[c].height))

\* the relative rounding error of one operation, and of the two operations
\* that separate a scaled size from its target size
Ulp == <<1, Pow2(Prec)>>

Eps == <<1, Pow2(Prec - 1)>>

\* C8 amended: the scale is min(W/W0, H/H0) rounded to a floating-point
\* number, and the drawn rectangle lies inside the canvas up to rounding:
\* each offset is at least -T*Eps for its target size T, on one axis the
\* offset is at most T*Eps in magnitude, and the rectangle ends at most
\* T*Eps past the canvas.
C8_PlacementWithinRounding ==
    \A c \in Drawn :
        LET pl == calls[c].place
            W == Num(calls[c].width)
            H == Num(calls[c].height)
            exact == RMin(<<calls[c].width, svg.rect[1]>>, <<calls[c].height, svg.rect[2]>>)
        IN  /\ RLeq(RAbs(RAdd(pl.scale, RNeg(exact))), RMul(exact, Ulp))
            /\ RLeq(RNeg(RMul(W, Eps)), pl.offsetX)
            /\ RLeq(RNeg(RMul(H, Eps)), pl.offsetY)
            /\ \/ RLeq(RAbs(pl.offsetX), RMul(W, Eps))
               \/ RLeq(RAbs(pl.offsetY), RMul(H, Eps))
            /\ RLeq(RAdd(pl.offsetX, pl.scaledWidth), RAdd(W, RMul(W, Eps)))
            /\ RLeq(RAdd(pl.offsetY, pl.scaledHeight), RAdd(H, RMul(H, Eps)))

C8_Witness ==
    \E c \in Drawn :
        /\ calls[c].kind = "png" /\ calls[c].pstat = "resolved"
        /\ calls[c].place.scale[2] # 1
        /\ RLess(Num(0), calls[c].place.offsetX)
        /\ RLeq(RAbs(calls[c].place.offsetY), RMul(Num(calls[c].height), Eps))

\* C9: a step that runs exportSVG, with includeStyles true, false or
\* omitted, leaves the container's <svg> with the children and attributes
\* it had.
C9_SvgExportKeepsLive ==
    [][\A c \in DOMAIN calls :
           (calls[c].kind = "none" /\ calls'[c].kind = "svg") => svg' = svg]_vars

C9_Witness ==
    \E c \in Started :
        /\ calls[c].kind = "svg" /\ calls[c].ostat = "resolved"
        /\ calls[c].includeStyles = Omitted
        /\ Contains(calls[c].out, StyleElement)
        /\ ~Contains(svg.children, StyleElement)

\* C10 as stated: for data that has records, the header is
\* 'X,Y,Label,Color' if every record carries x and 'Label,Value,Color'
\* otherwise, also when only some records carry x.
C10_HeaderByEveryRecord ==
    (csvOut # NotRun /\ Len(csvData) > 0) =>
        StartsWith(csvOut,
                   IF \A i \in 1 .. Len(csvData) : Has(csvData[i], "x")
                   THEN ScatterHeader ELSE ChartHeader)

\* C10 amended: for a non-empty data array the header is 'X,Y,Label,Color'
\* if the first record carries x and 'Label,Value,Color' otherwise, whatever
\* the other records carry; for an empty array the text is empty.
C10_HeaderByFirstRecord ==
    csvOut # NotRun =>
        IF Len(csvData) = 0 THEN csvOut = <<>>
        ELSE StartsWith(csvOut,
                        IF Has(csvData[1], "x") THEN ScatterHeader ELSE ChartHeader)

C10_Witness ==
    /\ csvOut # NotRun
    /\ Len(csvData) = 2
    /\ ~Has(csvData[1], "x") /\ Has(csvData[2], "x")
    /\ StartsWith(csvOut, ChartHeader)

(***************************************************************************)
(* Properties of exportCSV and exportJSON.                                 *)
(***************************************************************************)
\* the position of the first token e of t at or after i, or 0
RECURSIVE IndexFrom(_, _, _)
IndexFrom(t, e, i) ==
    IF i > Len(t) THEN 0 ELSE IF t[i] = e THEN i ELSE IndexFrom(t, e, i + 1)

\* t cut at every token sep; the text after the last sep is a piece only
\* when it is not empty or when keepLast asks for it
RECURSIVE Split(_, _, _)
Split(t, sep, keepLast) ==
    LET k == IndexFrom(t, sep, 1)
    IN  IF k = 0
        THEN (IF keepLast \/ Len(t) > 0 THEN <<t>> ELSE <<>>)
        ELSE <<SubSeq(t, 1, k - 1)>> \o Split(SubSeq(t, k + 1, Len(t)), sep, keepLast)

\* the lines of a text, and the fields of a line
Lines(t) == Split(t, "\n", FALSE)

Fields(line) == Split(line, ",", TRUE)

RECURSIVE CountToken(_, _)
CountToken(t, e) ==
    IF Len(t) = 0 THEN 0
    ELSE (IF Head(t) = e THEN 1 ELSE 0) + CountToken(Tail(t), e)

TextOf(d, f) == IF Has(d, f) THEN Chars(d[f]) ELSE <<>>

RECURSIVE EmbeddedNewlines(_)
EmbeddedNewlines(data) ==
    IF Len(data) = 0 THEN 0
    ELSE CountToken(TextOf(Head(data), "label"), "\n")
             + CountToken(TextOf(Head(data), "color"), "\n")
             + EmbeddedNewlines(Tail(data))

\* the fields the row of a datum is to carry, in column order
ExpectedFields(d, scatter) ==
    IF scatter
    THEN <<<<ToString(d.x)>>, <<ToString(d.y)>>, TextOf(d, "label"), TextOf(d, "color")>>
    ELSE <<TextOf(d, "label"), <<ToString(d.value)>>, TextOf(d, "color")>>

\* every record has the fields its shape requires, no field holds a
\* separator
PlainData(data, scatter) ==
    \A i \in 1 .. Len(data) :
        /\ IF scatter THEN Has(data[i], "x") /\ Has(data[i], "y")
                      ELSE Has(data[i], "label") /\ Has(data[i], "value")
        /\ \A f \in {"label", "color"} :
               CountToken(TextOf(data[i], f), "\n") = 0
                   /\ CountToken(TextOf(data[i], f), ",") = 0

\* the rows of the text are the data in input order
RowsInOrder(text, data, scatter) ==
    \A i \in 1 .. Len(data) :
        Fields(Lines(text)[i + 1]) = ExpectedFields(data[i], scatter)

\* C11 as stated: for any data of n records the text has exactly n+1 lines,
\* each newline-terminated: the header, then one row per datum in input
\* order.
C11_LinesPerDatum ==
    csvOut # NotRun =>
        /\ Len(Lines(csvOut)) = Len(csvData) + 1
        /\ csvOut # <<>> /\ csvOut[Len(csvOut)] = "\n"
        /\ Lines(csvOut)[1] \o <<"\n">> \in {ScatterHeader, ChartHeader}

\* C11 amended: for n >= 1 records the text is newline-terminated and has
\* n+1 lines plus one line for every newline inside a label or colour
\* (fields are written verbatim); when no field holds a separator the lines
\* are the header and one row per datum in input order, a missing optional
\* field being empty.  For n = 0 the text is empty.
C11_RowsPerDatum ==
    csvOut # NotRun =>
        IF Len(csvData) = 0 THEN Lines(csvOut) = <<>>
        ELSE /\ Len(Lines(csvOut)) = Len(csvData) + 1 + EmbeddedNewlines(csvData)
             /\ csvOut[Len(csvOut)] = "\n"
             /\ Lines(csvOut)[1] \o <<"\n">> \in {ScatterHeader, ChartHeader}
             /\ PlainData(csvData, Has(csvData[1], "x")) =>
                    RowsInOrder(csvOut, csvData, Has(csvData[1], "x"))

C11_Witness ==
    /\ csvData = <<[label |-> "Q1", value |-> 120],
                   [label |-> "Q2", value |-> 180, color |-> "#10B981"]>>
    /\ csvOut = <<"Label", ",", "Value", ",", "Color", "\n",
                  "Q1", ",", "120", ",", "\n",
                  "Q2", ",", "180", ",", "#10B981", "\n">>

RECURSIVE CountMime(_, _)
CountMime(files, mimeType) ==
    IF Len(files) = 0 THEN 0
    ELSE (IF Head(files).mimeType = mimeType THEN 1 ELSE 0)
             + CountMime(Tail(files), mimeType)

\* C12: exportCSV and exportJSON trigger exactly one download when a
\* filename is supplied, for any data, and none otherwise; the file holds
\* the returned text.
C12_DownloadIffFilename ==
    /\ csvOut # NotRun =>
           CountMime(downloads, "text/csv") = (IF fileArg.csv # "" THEN 1 ELSE 0)
    /\ jsonOut # NotRun =>
           CountMime(downloads, "application/json") = (IF fileArg.json # "" THEN 1 ELSE 0)
    /\ \A i \in 1 .. Len(downloads) :
           downloads[i].content =
               (IF downloads[i].mimeType = "text/csv" THEN csvOut ELSE jsonOut)

\* C13: exportCSV of an empty data array returns the empty string, without
\* a header line.
C13_EmptyDataEmptyText ==
    (csvOut # NotRun /\ Len(csvData) = 0) => csvOut = <<>>

C13_Witness ==
    /\ csvOut = <<>>
    /\ csvData = <<>>
    /\ jsonOut # NotRun /\ jsonOut # <<>>

(***************************************************************************)
(* The scatter plot's trend line and clustering.                           *)
(***************************************************************************)
TrendAsked ==
    /\ plot.impl # "none"
    /\ plot.showTrend
    /\ Len(plot.data) > 0

\* C14: in both ScatterPlot implementations, a plot whose trend line is
\* enabled and whose data has fewer than 2 points has no trend-line element
\* and its last call has thrown nothing
C14_NoTrendBelowTwoPoints ==
    (TrendAsked /\ Len(plot.data) < 2) => (plot.lines = <<>> /\ plot.thrown = NoErr)

RECURSIVE IntSumTo(_, _)
IntSumTo(terms, i) == IF i = 0 THEN 0 ELSE IntSumTo(terms, i - 1) + terms[i]

IntSum(terms) == IntSumTo(terms, Len(terms))

\* the exact sums over data whose coordinates are integers
Sx(data) == IntSum([i \in 1 .. Len(data) |-> data[i].x[1]])

Sy(data) == IntSum([i \in 1 .. Len(data) |-> data[i].y[1]])

Sxy(data) == IntSum([i \in 1 .. Len(data) |-> data[i].x[1] * data[i].y[1]])

Sxx(data) == IntSum([i \in 1 .. Len(data) |-> data[i].x[1] * data[i].x[1]])

SlopeNum(data) == Len(data) * Sxy(data) - Sx(data) * Sy(data)

SlopeDen(data) == Len(data) * Sxx(data) - Sx(data) * Sx(data)

LeastX(data) == CHOOSE a \in {data[i].x : i \in 1 .. Len(data)} :
                    \A i \in 1 .. Len(data) : RLeq(a, data[i].x)

GreatestX(data) == CHOOSE a \in {data[i].x : i \in 1 .. Len(data)} :
                       \A i \in 1 .. Len(data) : RLeq(data[i].x, a)

\* a trend line is asked for, of at least 2 points with 2 distinct x values
TrendCase ==
    /\ TrendAsked
    /\ plot.impl = "enhanced" => plot.trendType = "linear"
    /\ plot.thrown = NoErr
    /\ Len(plot.data) >= 2
    /\ \E i, j \in 1 .. Len(plot.data) : plot.data[i].x # plot.data[j].x

\* slope * (n*Sxx - Sx*Sx) = n*Sxy - Sx*Sy and n * intercept = Sy - slope*Sx
NormalEquations(t, data) ==
    /\ IsFinite(t.slope) /\ IsFinite(t.intercept)
    /\ t.slope[1] * SlopeDen(data) = SlopeNum(data) * t.slope[2]
    /\ Reduce(RMul(Num(Len(data)), t.intercept))
           = Reduce(RAdd(Num(Sy(data)), RNeg(RMul(t.slope, Num(Sx(data))))))

ExactSums(data) ==
    LET n == Num(Len(data))
        sumX == Sum(Xs(data))
        sumY == Sum(Ys(data))
        sumXY == Sum([i \in 1 .. Len(data) |-> XMul(data[i].x, data[i].y)])
        sumXX == Sum([i \in 1 .. Len(data) |-> XMul(data[i].x, data[i].x)])
    IN  /\ sumX = Num(Sx(data)) /\ sumY = Num(Sy(data))
        /\ sumXY = Num(Sxy(data)) /\ sumXX = Num(Sxx(data))
        /\ XMul(n, sumXY) = Num(Len(data) * Sxy(data))
        /\ XMul(sumX, sumY) = Num(Sx(data) * Sy(data))
        /\ XMul(n, sumXX) = Num(Len(data) * Sxx(data))
        /\ XMul(sumX, sumX) = Num(Sx(data) * Sx(data))
        /\ Fl(Num(SlopeNum(data))) = Num(SlopeNum(data))
        /\ Fl(Num(SlopeDen(data))) = Num(SlopeDen(data))

\* the quotient of the slope and the steps of the intercept are
\* floating-point numbers themselves
ExactFit(data) ==
    LET slope == Reduce(<<SlopeNum(data), SlopeDen(data)>>)
        part == Reduce(RMul(slope, Num(Sx(data))))
        rest == Reduce(RAdd(Num(Sy(data)), RNeg(part)))
        icpt == Reduce(<<rest[1], rest[2] * Len(data)>>)
    IN  /\ Fl(slope) = slope /\ Fl(part) = part /\ Fl(rest) = rest /\ Fl(icpt) = icpt

C16_TenIterations ==
    plot.km.ran => (~plot.km.threw /\ plot.km.iterations = 10)

(***************************************************************************)
(* The chart constructors and update().                                    *)
(***************************************************************************)
Constructed == chart.op = "new"

\* the selector of the constructor call matched no element of the document
NoMatch ==
    /\ chart.container.type = "selector"
    /\ \A e \in DOMAIN chart.before.page :
           ~(chart.before.page[e].attached /\ Matches(e, chart.container.value))

\* C17: a constructor of any chart class called with a selector that matches
\* no element throws 'Container element not found', and the page has the
\* nodes it had before the call
C17_NoMatchThrows ==
    (Constructed /\ NoMatch) =>
        /\ chart.thrown = "Container element not found"
        /\ ~chart.alive
        /\ page = chart.before.page

C17_Witness ==
    /\ Constructed /\ NoMatch
    /\ chart.kind = "BarChart"
    /\ chart.container = Selector("#non-existent")
    /\ chart.thrown = "Container element not found"
    /\ page[Attached].children = <<"p">>

\* C18: a BarChart constructed with a container element that is not attached
\* to the document throws 'Container element not found'
C18_DetachedThrows ==
    (/\ Constructed
     /\ chart.kind = "BarChart"
     /\ chart.container.type = "element"
     /\ ~chart.before.page[chart.container.value].attached)
        => chart.thrown = "Container element not found"

\* the first record of the array lacks the field
Lacks(data, field) ==
    data.type = "array" /\ Len(data.items) > 0 /\ ~Has(data.items[1], field)

\* the data of the constructor call has the wrong shape for the chart
WrongShapeGiven ==
    \/ /\ chart.kind \in {"PieChart", "PieChart (part_004)", "LineChart",
                          "LineChart (part_002)", "BarChart", "AreaChart",
                          "AreaChart (export-manager.ts)"}
       /\ Lacks(chart.arg, "label")
    \/ /\ chart.kind \in {"ScatterPlot", "ScatterPlot (part_003)"}
       /\ Lacks(chart.arg, "x")

\* C19: a constructor that found its container and was given data of the
\* wrong shape throws, and the container has the content it had before
C19_WrongShapeThrowsFirst ==
    (Constructed /\ chart.thrown # "Container element not found" /\ WrongShapeGiven) =>
        /\ chart.thrown # NoErr
        /\ page = chart.before.page

\* C20: update() of a chart that takes an array, called with null, undefined
\* or an empty array, logs a warning and throws nothing, and the chart's data
\* and its drawing are the ones before the call
C20_BadUpdateIgnored ==
    (/\ chart.op = "update"
     /\ chart.kind \notin {"TreemapChart", "GaugeChart", "SankeyChart"}
     /\ chart.arg \in {Null, Undefined, EmptyArray})
        => /\ chart.warning # NoWarning
           /\ chart.thrown = NoErr
           /\ chart.data = chart.before.data
           /\ chart.rendered = chart.before.rendered
           /\ page = chart.before.page

(***************************************************************************)
(* Properties of rendering and of the chart's nodes.                       *)
(***************************************************************************)
\* the constructor found its container and was given the empty array
EmptyGiven ==
    /\ Constructed
    /\ chart.arg = EmptyArray
    /\ chart.thrown # ErrNoContainer

\* C21: a constructor of any chart class given an empty data array does
\* not throw, logs a warning and draws nothing: the container holds only
\* the nodes of createSVG and the chart group shows no data
C21_EmptyDataIsSoft ==
    EmptyGiven =>
        /\ chart.thrown = NoErr
        /\ chart.alive
        /\ chart.warning # NoWarning
        /\ chart.rendered = Undefined
        /\ page[chart.element].children = Created(chart.kind)

\* the chart is a pie chart that was constructed
PieHeld ==
    /\ chart.kind \in {"PieChart", "PieChart (part_004)"}
    /\ chart.alive

\* C22: what a pie chart shows corresponds to the data it holds: the slices
\* are those of the held data, or nothing is shown when the total of the
\* held data is zero or negative
C22_SlicesAreOfHeldData ==
    PieHeld =>
        \/ chart.rendered = chart.data
        \/ /\ TotalAborts(chart.data)
           /\ chart.rendered = Undefined

\* the nodes of a list that chart id appended
Owned(id, nodes) == SelectSeq(nodes, LAMBDA n : n.owner = id)

Destroyed == stage.op = "destroy"

\* C23: after destroy() on a chart no node the chart created is left in the
\* container or in the body and the container is empty, and a destroy() of
\* a chart that was destroyed before leaves the document as it was
C23_DestroyLeavesNothing ==
    Destroyed =>
        /\ stage.container = <<>>
        /\ Owned(stage.id, stage.body) = <<>>
        /\ (stage.inst[stage.id].destroyed > 1 =>
                /\ stage.container = stage.before.container
                /\ stage.body = stage.before.body)

\* the last call was made on a chart while the other chart existed
OtherChart == CHOOSE i \in Ids : i # stage.id

SharedContainer ==
    /\ stage.op \in {"destroy", "update", "resize"}
    /\ stage.inst[OtherChart].made

\* C26: destroy(), update() and resize() of one chart leave the nodes of the
\* other chart on the same container where they were
C26_OtherChartIntact ==
    SharedContainer =>
        /\ Owned(OtherChart, stage.container) = Owned(OtherChart, stage.before.container)
        /\ Owned(OtherChart, stage.body) = Owned(OtherChart, stage.before.body)

\* C30: however many times an AreaChart rendered, the body holds at most one
\* tooltip of the chart and its <svg> at most one <defs>
C30_NodesBounded ==
    \A id \in Ids :
        stage.inst[id].kind = "AreaChart" =>
            /\ Len(Owned(id, stage.body)) <= 1
            /\ stage.inst[id].defs <= 1

\* C24: the image of an exportPNG call is placed by the bounding box the
\* <svg> had when the call started, whatever the chart did before the image
\* loaded, and the scale factor and the offsets are finite numbers
C24_PlacementOfStart ==
    \A c \in Calls :
        calls[c].place.drawn =>
            /\ calls[c].place =
                   Placement(calls[c].width, calls[c].height, calls[c].startRect)
            /\ IsFinite(calls[c].place.scale)
            /\ IsFinite(calls[c].place.offsetX)
            /\ IsFinite(calls[c].place.offsetY)

(***************************************************************************)
(* Properties of the ScatterPlot's clusters, selection and zoom.           *)
(***************************************************************************)
\* performClustering ran to its end on the held data
ClusterCase ==
    /\ plot.km.ran
    /\ ~plot.km.threw
    /\ plot.k >= 1
    /\ Len(plot.data) >= 1

PointOf(j) == <<plot.data[j].x, plot.data[j].y>>

\* how many times the index j occurs in a cluster
Occurrences(cluster, j) == Len(SelectSeq(cluster, LAMBDA m : m = j))

\* the clusters are k lists of indices of the data and every index is in
\* exactly one of them, once
Partition ==
    /\ Len(plot.km.clusters) = plot.k
    /\ \A i \in 1 .. plot.k : \A m \in 1 .. Len(plot.km.clusters[i]) :
           plot.km.clusters[i][m] \in 1 .. Len(plot.data)
    /\ \A j \in 1 .. Len(plot.data) :
           \E i \in 1 .. plot.k :
               /\ Occurrences(plot.km.clusters[i], j) = 1
               /\ \A other \in (1 .. plot.k) \ {i} :
                      Occurrences(plot.km.clusters[other], j) = 0

\* the square of the Euclidean distance, without rounding
ExactSquare(point, centroid) ==
    LET dx == RAdd(point[1], RNeg(centroid[1]))
        dy == RAdd(point[2], RNeg(centroid[2]))
    IN  RAdd(RMul(dx, dx), RMul(dy, dy))

\* C25 as stated: the clusters partition the indices, and the cluster of a
\* point is that of the centroid nearest to it in Euclidean distance, the
\* lowest index among the nearest
C25_NearestExact ==
    ClusterCase =>
        /\ Partition
        /\ \A j \in 1 .. Len(plot.data) : \A i \in 1 .. plot.k :
               Occurrences(plot.km.clusters[i], j) = 1 =>
                   /\ \A other \in 1 .. plot.k :
                          RLeq(ExactSquare(PointOf(j), plot.km.centroids[i]),
                               ExactSquare(PointOf(j), plot.km.centroids[other]))
                   /\ \A lower \in 1 .. (i - 1) :
                          RLess(ExactSquare(PointOf(j), plot.km.centroids[i]),
                                ExactSquare(PointOf(j), plot.km.centroids[lower]))

\* C25, amended: the clusters partition the indices, and the cluster of a
\* point is that of the centroid nearest to it in the distance as the
\* floating-point operations compute it, the lowest index among the nearest
C25_NearestComputed ==
    ClusterCase =>
        /\ Partition
        /\ \A j \in 1 .. Len(plot.data) : \A i \in 1 .. plot.k :
               Occurrences(plot.km.clusters[i], j) = 1 =>
                   /\ \A other \in 1 .. plot.k :
                          RLeq(Distance(PointOf(j), plot.km.centroids[i]),
                               Distance(PointOf(j), plot.km.centroids[other]))
                   /\ \A lower \in 1 .. (i - 1) :
                          RLess(Distance(PointOf(j), plot.km.centroids[i]),
                                Distance(PointOf(j), plot.km.centroids[lower]))

\* three points in two clusters, neither of them empty
C25_Witness ==
    /\ ClusterCase
    /\ plot.k = 2
    /\ Len(plot.data) = 3
    /\ Len(plot.km.clusters[1]) > 0
    /\ Len(plot.km.clusters[2]) > 0

\* the last call was an update()
Updated == plot.op = "update"

\* the indices of the selection are indices of the held data, and with
\* selection type 'point' and multipleSelection false there is at most one
SelectionValid ==
    /\ \A i \in plot.selected : i \in 1 .. Len(plot.data)
    /\ (/\ Text(plot.options.selection, "type") = "point"
        /\ "multipleSelection" \in DOMAIN plot.options.selection
        /\ ~plot.options.selection.multipleSelection)
            => Cardinality(plot.selected) <= 1

\* C27 as stated: the selection holds valid indices, at most one in single
\* point selection, and it is empty after every update() and every
\* clearSelection()
C27_SelectionEmptyAfterUpdate ==
    /\ SelectionValid
    /\ plot.op = "clearSelection" => plot.selected = {}
    /\ Updated => plot.selected = {}

\* C27, amended: the selection holds valid indices, at most one in single
\* point selection, and it is empty after every clearSelection() and after
\* every update() with a non-empty array
C27_SelectionEmptyAfterAcceptedUpdate ==
    /\ SelectionValid
    /\ plot.op = "clearSelection" => plot.selected = {}
    /\ (Updated /\ Len(plot.arg) > 0) => plot.selected = {}

\* a rectangle selection of two points that a resize() kept
C27_Witness ==
    /\ plot.op = "resize"
    /\ Cardinality(plot.selected) = 2

\* C28: the zoom behaviour is attached to the <svg> exactly when
\* options.zoom.enabled is true
C28_ZoomAttachedIffEnabled ==
    (plot.alive /\ plot.impl = "enhanced") =>
        (plot.zoom.attached <=> plot.zoom.enabled)

\* the constructor got past its check of the data
OptionsMerged ==
    /\ plot.op = "new"
    /\ plot.impl = "enhanced"

\* C29: every option the caller did not supply has its default value, the
\* fields of the groups the caller supplied in part included, and the
\* constructor does not throw
C29_MergeKeepsDefaults ==
    OptionsMerged =>
        /\ plot.thrown = NoErr
        /\ \A key \in DOMAIN ScatterDefaults :
               IF key \notin DOMAIN plot.given
               THEN plot.options[key] = ScatterDefaults[key]
               ELSE key # "width" =>
                       \A field \in DOMAIN ScatterDefaults[key] \ DOMAIN plot.given[key] :
                           /\ field \in DOMAIN plot.options[key]
                           /\ plot.options[key][field] = ScatterDefaults[key][field]

====
